---- MODULE Spec2Model ----
(***************************************************************************)
(* Model of the per-user PocketBase supervisor of the backend               *)
(* (src/backend/src/pocketbase_manager.rs) together with the HTTP handlers  *)
(* that drive it (src/backend/src/api/pocketbase.rs).                       *)
(*                                                                         *)
(* Every block of the code that runs under one lock guard is one atomic     *)
(* step; every .await between two guards is a point where other tasks and   *)
(* the health loop interleave.  A guard that is held while another lock is  *)
(* acquired, or across an await that another task can wait on, is a lock    *)
(* variable of the model.                                                  *)
(*                                                                         *)
(* The second part models the event fan-out: the BroadcastService of        *)
(* src/common/src/broadcast.rs and the WebSocketManager of                  *)
(* src/backend/src/api/websocket.rs, both built on tokio broadcast          *)
(* channels.  The supervisor and the fan-out share no state, so each is     *)
(* explored by a specification of its own from the one initial state.       *)
(*                                                                         *)
(* The third part models the meetings queue of                              *)
(* src/backend/src/api/queue.rs: the handlers change the queue under its    *)
(* write lock and publish on the queue topic after releasing it.            *)
(***************************************************************************)
EXTENDS Integers, FiniteSets, Sequences, TLC

\* ------------------------------------------------------------------ bounds
\* Size of the port range (1000 in the code, lines 137 and 145), scaled down.
RangeSize == 3
\* Number of HTTP requests served in one run.
MaxRequests == 2
\* Capacity asked of a broadcast channel (1000 in the code: main.rs line 65,
\* broadcast.rs line 67, websocket.rs lines 78-79), scaled down.
Capacity == 3
\* Number of broadcast calls in one run of the BroadcastService.
MaxEvents == 5
\* Capacity asked of the two topics of the WebSocketManager (1000 in the
\* code, websocket.rs lines 78-79), scaled down.
TopicCapacity == 1
\* Numbers of queue updates and of progress updates published, and of "ping"
\* frames received from the clients, in one run of the WebSocketManager.
MaxQueueUpdates == 1
MaxProgressUpdates == 1
MaxPings == 1
\* Number of requests to the queue API in one run.
MaxCalls == 3

\* ------------------------------------------------------------- constants
BasePort == 9000

Users == {"alice", "bob"}
\* The request tasks the server runs side by side.
Tasks == {1, 2}

NoTask == 0
NoPort == 0
NoInstance == [port |-> NoPort, status |-> "Absent", last_health_check |-> "None"]
NoChild == "none"

Ports == BasePort .. (BasePort + RangeSize - 1)

InstanceStatus == {"Starting", "Running", "Failed", "Stopped"}

\* hash_user_id is SipHash of the id truncated to u32: an opaque but fixed
\* function of the user id.  The table fixes one such function.
hash_user_id(u) == IF u = "alice" THEN 4 ELSE 7

VARIABLES
    instances,        \* registry: user -> PocketBaseInstance or NoInstance
    processes,        \* process table: user -> "none" | "alive" | "exited"
    allocated_ports,  \* the allocation set
    ports_lock,       \* task holding the allocated_ports mutex, or NoTask
    instances_lock,   \* task holding the registry write guard, or NoTask
    tasks,            \* request tasks: task -> position and locals
    health,           \* the health loop: position and locals
    requests,         \* number of requests received so far
    load,             \* the requests of this run: how many, and whether
                      \* they arrive one after another
    granted,          \* history: port -> users it was returned to and who
                      \* hold it unreleased
    service,          \* the channel of the BroadcastService
    subscribers,      \* holder of a Receiver of the service -> its position
    published,        \* history: the updates passed to broadcast, in order
    received,         \* history: subscriber -> what its recv calls returned
    forwarder,        \* the task with_external_broadcast spawns: its
                      \* position and the updates it has sent on
    queue_sender,     \* the queue topic of the WebSocketManager
    progress_sender,  \* its progress topic
    connections,      \* its connection table
    sockets,          \* connection -> its handle_socket call and two tasks
    traffic,          \* numbers of updates published and of pings received
                      \* from each client
    workload,         \* the connections and traffic of this run: how many
    meetings_queue,   \* the meetings queue of the queue API
    queue_lock,       \* handler holding the write guard of the queue, or
                      \* NoHandler
    handlers,         \* queue API handler -> its position and locals
    queue_log         \* history of the queue API: requests and meetings so
                      \* far, the queue after each mutation, the updates
                      \* published

\* The state of the BroadcastService and that of the WebSocketManager.
hub == <<service, subscribers, published, received, forwarder>>
manager == <<queue_sender, progress_sender, connections, sockets, traffic,
            workload>>

\* The state of the queue API.
api == <<meetings_queue, queue_lock, handlers, queue_log>>

\* The state of the event fan-out and of the queue API that feeds it.
fanout == <<hub, manager, api>>

vars == <<instances, processes, allocated_ports, ports_lock, instances_lock,
          tasks, health, requests, load, granted, fanout>>

\* ------------------------------------------------------------------ helpers
IdleTask == [pc |-> "idle", op |-> "none", user |-> "none",
             port |-> NoPort, kill |-> "none", solo |-> FALSE,
             prior |-> "Absent",
             line |-> 0, err |-> "none", inst |-> NoInstance]

Registered(u) == instances[u] # NoInstance

\* A bug: the check for an instance that already runs is missing.
NeverRunning(u) == FALSE

\* Lines 66-67: a record of u exists and its status is Running.
AlreadyRunning(u) == Registered(u) /\ instances[u].status = "Running"

\* A bug: a kill error ends stop_user_instance at once.
AfterKillAbort(killed) == IF killed = "err" THEN "ret" ELSE "stop_mark"

\* Lines 294-296: a kill error is logged and the stop goes on.
AfterKill(killed) == "stop_mark"

\* Task t is free to take the next request.
Accepts(t) ==
    /\ tasks[t].pc = "idle"
    /\ requests < load.max
    /\ load.serial => \A x \in Tasks : tasks[x].pc \in {"idle", "ret"}

\* A freshly constructed instance (lines 86-94).
\* last_health_check is an Option of a timestamp; the model keeps whether it
\* is None or Some.
NewInstance(p) ==
    [port |-> p, status |-> "Starting", last_health_check |-> "None"]

\* is_port_available (lines 167-172): the bind succeeds unless the port is
\* bound by somebody; `bound` is the set of ports bound at the time of the scan.
is_port_available(p, bound) == p \notin bound

SetMin(S) == CHOOSE x \in S : \A y \in S : x <= y

\* allocate_port's choice (lines 136-153): the preferred port when it is free,
\* else the first free port of base_port + 1 .. base_port + 999, else none.
PreferredPort(u) == BasePort + (hash_user_id(u) % RangeSize)

ScanFree(ports, bound) ==
    {BasePort + offset : offset \in
        {o \in 1 .. (RangeSize - 1) :
            (BasePort + o) \notin ports /\ is_port_available(BasePort + o, bound)}}

ChoosePort(ports, u, bound) ==
    IF PreferredPort(u) \notin ports /\ is_port_available(PreferredPort(u), bound)
    THEN PreferredPort(u)
    ELSE IF ScanFree(ports, bound) # {}
         THEN SetMin(ScanFree(ports, bound))
         ELSE NoPort

\* A bug the lock excludes: the allocation set is used without the mutex.
PortsLockIgnored == TRUE

\* The allocated_ports mutex can be taken (self.allocated_ports.lock().await).
PortsLockFree == ports_lock = NoTask

\* The registry lock can be taken, for reading or writing.
InstancesLockFree == instances_lock = NoTask

\* A bug: the port is not removed from the set.
ReleasePortForgotten(p) == UNCHANGED <<allocated_ports, granted>>

\* A bug: releasing a port that is not in the set puts it there.
ReleasePortToggles(p) ==
    /\ allocated_ports' = IF p \in allocated_ports
                          THEN allocated_ports \ {p}
                          ELSE allocated_ports \cup {p}
    /\ granted' = [q \in Ports |-> IF q = p THEN {} ELSE granted[q]]

\* ports.remove(&p), with the history of grants.
ReleasePort(p) ==
    /\ allocated_ports' = allocated_ports \ {p}
    /\ granted' = [q \in Ports |-> IF q = p THEN {} ELSE granted[q]]

\* An init_user_instance call for u is between its entry and its return.
InitPcs == {"init_check", "alloc", "alloc_insert", "mkdir", "spawn",
            "release", "store_proc", "store_inst"}
StopPcs == {"stop_kill", "stop_mark", "stop_release"}
InitRunning(u) == \E t \in Tasks : tasks[t].user = u /\ tasks[t].pc \in InitPcs

Ret(t, ln, e, i) ==
    [tasks[t] EXCEPT !.pc = "ret", !.line = ln, !.err = e, !.inst = i]

\* History: an init_user_instance call for u starts, so every stop of u that
\* is under way no longer runs without a concurrent Init.
InitStarts(tk, u) ==
    [x \in Tasks |->
        IF tk[x].user = u /\ tk[x].pc \in StopPcs
        THEN [tk[x] EXCEPT !.solo = FALSE] ELSE tk[x]]

\* ------------------------------------------------- tokio broadcast channel
\* The code builds its topics with tokio::sync::broadcast::channel(capacity)
\* (broadcast.rs line 41, websocket.rs lines 78-79).  A channel is a ring of
\* slots addressed by position: `pos` is the position of the next value sent,
\* `buf` the retained values, oldest first, and `rx` the position each
\* Receiver reads next.
\* Option<T>: None, or Some(x).
None == <<>>
Some(x) == <<x>>
NoReceiver == -1

\* The ring has the requested capacity rounded up to a power of two.
next_power_of_two(n) ==
    CHOOSE p \in {1, 2, 4, 8, 16} :
        p >= n /\ \A q \in {1, 2, 4, 8, 16} : q >= n => p <= q

\* channel(capacity) with the Receiver it returns dropped at once, as the
\* `let (sender, _)` of the constructors does; `ids` names the Receivers that
\* can be created later.
channel(capacity, ids) ==
    [cap |-> next_power_of_two(capacity), pos |-> 0, buf |-> <<>>,
     rx |-> [i \in ids |-> NoReceiver]]

receiver_count(ch) == Cardinality({i \in DOMAIN ch.rx : ch.rx[i] # NoReceiver})

\* The last n values of a sequence.
Last(q, n) == IF Len(q) <= n THEN q ELSE SubSeq(q, Len(q) - n + 1, Len(q))

\* A bug: a value sent to a channel without receivers is retained.
send_retains(ch, v) ==
    [ch EXCEPT !.pos = @ + 1, !.buf = Last(Append(@, v), ch.cap)]

\* A bug: a value is not stored while some Receiver has a full ring unread.
send_spares_slowest(ch, v) ==
    IF receiver_count(ch) = 0 THEN ch
    ELSE IF \E i \in DOMAIN ch.rx :
                ch.rx[i] # NoReceiver /\ ch.pos - ch.rx[i] >= ch.cap
         THEN ch
         ELSE [ch EXCEPT !.pos = @ + 1, !.buf = Last(Append(@, v), ch.cap)]

\* Sender::send: with no Receiver it returns Err and stores nothing; otherwise
\* the value takes the slot of the oldest retained one.  It never waits.
send(ch, v) ==
    IF receiver_count(ch) = 0 THEN ch
    ELSE [ch EXCEPT !.pos = @ + 1, !.buf = Last(Append(@, v), ch.cap)]

send_is_err(ch) == receiver_count(ch) = 0

\* A bug: a new Receiver starts at the oldest retained value.
subscribe_replays(ch, i) == [ch EXCEPT !.rx[i] = ch.pos - Len(ch.buf)]

\* Sender::subscribe: the new Receiver starts at the position of the next
\* value sent.
subscribe(ch, i) == [ch EXCEPT !.rx[i] = ch.pos]

\* Dropping a Receiver.
drop_receiver(ch, i) == [ch EXCEPT !.rx[i] = NoReceiver]

\* Position of the oldest retained value.
oldest(ch) == ch.pos - Len(ch.buf)

\* Receiver::recv has something to return (otherwise it waits).
recv_ready(ch, i) == ch.rx[i] # NoReceiver /\ ch.rx[i] < ch.pos

\* A bug: a Receiver that fell behind silently jumps to the oldest value.
recv_value_silent(ch, i) ==
    IF ch.rx[i] < oldest(ch) THEN ch.buf[1]
    ELSE ch.buf[ch.rx[i] - oldest(ch) + 1]

\* What a ready recv returns: Err(Lagged(n)) when the value at its position
\* was overwritten, else the value at its position.
recv_value(ch, i) ==
    IF ch.rx[i] < oldest(ch)
    THEN [lagged |-> oldest(ch) - ch.rx[i]]
    ELSE ch.buf[ch.rx[i] - oldest(ch) + 1]

\* A bug: a recv moves the Receiver past the value after the one it returns.
recv_skips(ch, i) ==
    [ch EXCEPT !.rx[i] = IF @ + 2 <= ch.pos THEN @ + 2 ELSE ch.pos]

\* The channel after that recv: a lagged Receiver moves to the oldest
\* retained value, the others to the next position.
recv(ch, i) ==
    [ch EXCEPT !.rx[i] = IF @ < oldest(ch) THEN oldest(ch) ELSE @ + 1]

IsLagged(x) == DOMAIN x = {"lagged"}

\* ------------------------------------------------------- BroadcastService
\* The tasks that can hold a Receiver of the service.
Subscribers == {1, 2}

\* The updates the workers broadcast (worker/src/queue.rs lines 60-95), less
\* the timestamp.
Updates ==
    {[update_type |-> "TaskStarted", affected_user_id |-> Some("bob"),
      global_position |-> None],
     [update_type |-> "QueueCleared", affected_user_id |-> None,
      global_position |-> None]}

\* The update with its timestamp, here the number of the broadcast call.
Stamped(update, n) ==
    [update_type |-> update.update_type,
     affected_user_id |-> update.affected_user_id,
     global_position |-> update.global_position,
     timestamp |-> n]

\* ------------------------------------------------------- WebSocketManager
\* The connections served in one run.
Conns == {1, 2}

\* The identities websocket_handler (lines 294-302) hands to handle_socket.
Identities == {"alice", "admin"}

\* The queue updates published on the queue topic, less queue and timestamp:
\* affected_user_id and global_position are each present or absent.
QueueUpdates ==
    {[affected_user_id |-> Some("bob"), global_position |-> Some(1)],
     [affected_user_id |-> Some("alice"), global_position |-> None],
     [affected_user_id |-> None, global_position |-> Some(1)],
     [affected_user_id |-> None, global_position |-> None]}

\* A handle_socket call that has not begun.  `wire` is the history of the
\* text frames written to the client, by kind: the number of "pong" frames
\* and the serialized queue and progress messages, each in order; `since`
\* is the history of the topic positions at which the call subscribed.
NoSocket ==
    [pc |-> "none", user_id |-> "none", incoming |-> "none",
     outgoing |-> "none", pongs |-> 0,
     wire |-> [pong |-> 0, queue |-> <<>>, progress |-> <<>>],
     since |-> [queue |-> 0, progress |-> 0]]

\* ---------------------------------------------------------------- queue API
\* The request handlers of the queue API that run at the same time.
Handlers == {1, 2}
NoHandler == 0

\* A handler between two requests; `response` is its last QueueResponse.
IdleHandler == [pc |-> "idle", request |-> None, update |-> None,
                response |-> None]

\* struct Meeting (queue.rs lines 16-22), less the topic; the id is the
\* number of the meeting among those ever added.
Meeting(id, user_id, position) ==
    [id |-> id, user_id |-> user_id, position |-> position]

\* The ids a remove_meeting request can name.
MeetingIds == 1 .. MaxCalls

\* --------------------------------------------------------------------- Init
Init ==
    /\ instances = [u \in Users |-> NoInstance]
    /\ processes = [u \in Users |-> NoChild]
    /\ allocated_ports = {}
    /\ ports_lock = NoTask
    /\ instances_lock = NoTask
    /\ tasks = [t \in Tasks |-> IdleTask]
    /\ health = [pc |-> "sleep", ids |-> {}, user |-> "none", alive |-> FALSE]
    /\ requests = 0
    /\ load = [max |-> MaxRequests, serial |-> FALSE]
    /\ granted = [p \in Ports |-> {}]
    /\ meetings_queue = <<>>
    /\ queue_lock = NoHandler
    /\ handlers = [h \in Handlers |-> IdleHandler]
    /\ queue_log = [calls |-> 0, ids |-> 0, mutations |-> <<>>,
                    applied |-> [h \in Handlers |-> 0], published |-> <<>>]
    /\ service = channel(Capacity, Subscribers)
    /\ subscribers = [s \in Subscribers |-> [state |-> "none", since |-> 0]]
    /\ published = <<>>
    /\ received = [s \in Subscribers |-> <<>>]
    /\ forwarder = [pc |-> "spawned", forwarded |-> <<>>]
    /\ queue_sender = channel(TopicCapacity, Conns)
    /\ progress_sender = channel(TopicCapacity, Conns)
    /\ connections = {}
    /\ sockets = [c \in Conns |-> NoSocket]
    /\ traffic = [queue |-> 0, progress |-> 0, pings |-> [c \in Conns |-> 0]]
    /\ workload = [conns |-> Cardinality(Conns), queue |-> MaxQueueUpdates,
                   progress |-> MaxProgressUpdates, pings |-> MaxPings]

\* ------------------------------------------------------- request handlers
\* POST /users/:id/init_pb (api/pocketbase.rs lines 47-79): with force_restart
\* the handler first runs stop_user_instance, then init_user_instance.
init_user_pocketbase(t, u, force_restart) ==
    /\ Accepts(t)
    /\ requests' = requests + 1
    /\ tasks' = IF force_restart
          THEN [tasks EXCEPT ![t] =
                  [IdleTask EXCEPT !.pc = "stop_kill", !.op = "restart",
                                   !.user = u, !.solo = ~InitRunning(u),
                                   !.prior = instances[u].status]]
          ELSE [InitStarts(tasks, u) EXCEPT ![t] =
                  [IdleTask EXCEPT !.pc = "init_check", !.op = "init",
                                   !.user = u]]
    /\ UNCHANGED <<instances, processes, allocated_ports, ports_lock,
                   instances_lock, health, load, fanout, granted>>

\* POST /users/:id/stop_pb (api/pocketbase.rs lines 126-132).
stop_user_pocketbase(t, u) ==
    /\ Accepts(t)
    /\ requests' = requests + 1
    /\ tasks' = [tasks EXCEPT ![t] =
          [IdleTask EXCEPT !.pc = "stop_kill", !.op = "stop", !.user = u,
                           !.solo = ~InitRunning(u)]]
    /\ UNCHANGED <<instances, processes, allocated_ports, ports_lock,
                   instances_lock, health, load, fanout, granted>>

\* get_user_instance (lines 281-284), called by GET /users/:id/pb_status.
get_user_instance(t, u) ==
    /\ Accepts(t)
    /\ requests' = requests + 1
    /\ InstancesLockFree
    /\ tasks' = [tasks EXCEPT ![t] =
          [IdleTask EXCEPT !.pc = "ret", !.op = "status", !.user = u,
                           !.line = 283, !.inst = instances[u]]]
    /\ UNCHANGED <<instances, processes, allocated_ports, ports_lock,
                   instances_lock, health, load, fanout, granted>>

\* The handler has sent its response; the task can serve the next request.
Respond(t) ==
    /\ tasks[t].pc = "ret"
    /\ tasks' = [tasks EXCEPT ![t] = IdleTask]
    /\ UNCHANGED <<instances, processes, allocated_ports, ports_lock,
                   instances_lock, health, requests, load, fanout, granted>>

\* ------------------------------------------------------ stop_user_instance
\* Lines 291-298: under the process-table mutex, remove the handle and kill
\* the child; a kill error is only logged.
StopKill(t, killed) ==
    /\ tasks[t].pc = "stop_kill"
    /\ LET u == tasks[t].user IN
        /\ processes' = [processes EXCEPT ![u] = NoChild]
        /\ tasks' = [tasks EXCEPT
              ![t].pc = IF processes[u] = NoChild
                        THEN "stop_mark" ELSE AfterKill(killed),
              ![t].kill = IF processes[u] = NoChild THEN "none" ELSE killed]
    /\ UNCHANGED <<instances, allocated_ports, ports_lock, instances_lock,
                   health, requests, load, fanout, granted>>

\* A bug: stopping a user without a record is an error.
AfterStopNotFound(t) ==
    IF tasks[t].op = "stop"
    THEN [tasks EXCEPT ![t] =
            [IdleTask EXCEPT !.pc = "ret", !.op = "stop",
                             !.user = tasks[t].user, !.kill = tasks[t].kill,
                             !.line = 312,
                             !.err = IF Registered(tasks[t].user)
                                     THEN "none" ELSE "InstanceNotFound"]]
    ELSE [InitStarts(tasks, tasks[t].user) EXCEPT ![t] =
            [IdleTask EXCEPT !.pc = "init_check", !.op = "restart",
                             !.user = tasks[t].user, !.prior = tasks[t].prior]]

\* What follows the return of stop_user_instance (line 312): the stop handler
\* responds; the init handler goes on to init_user_instance (line 79).
AfterStop(t) ==
    IF tasks[t].op = "stop"
    THEN [tasks EXCEPT ![t] =
            [IdleTask EXCEPT !.pc = "ret", !.op = "stop",
                             !.user = tasks[t].user, !.kill = tasks[t].kill,
                             !.line = 312]]
    ELSE [InitStarts(tasks, tasks[t].user) EXCEPT ![t] =
            [IdleTask EXCEPT !.pc = "init_check", !.op = "restart",
                             !.user = tasks[t].user, !.prior = tasks[t].prior]]

\* Lines 302-304: take the registry write guard; a registered instance is set
\* to Stopped and the guard is kept while the port mutex is awaited.  Without
\* a record the guard is dropped and the call returns Ok.
StopMark(t) ==
    /\ tasks[t].pc = "stop_mark"
    /\ InstancesLockFree
    /\ LET u == tasks[t].user IN
        IF Registered(u)
        THEN /\ instances' = [instances EXCEPT ![u].status = "Stopped"]
             /\ instances_lock' = t
             /\ tasks' = [tasks EXCEPT ![t].pc = "stop_release"]
        ELSE /\ tasks' = AfterStop(t)
             /\ UNCHANGED <<instances, instances_lock>>
    /\ UNCHANGED <<processes, allocated_ports, ports_lock, health, requests, load, fanout, granted>>

\* Lines 306-312: take the port mutex, remove the record's port, drop both
\* guards and return Ok.
StopRelease(t) ==
    /\ tasks[t].pc = "stop_release"
    /\ PortsLockFree
    /\ ReleasePort(instances[tasks[t].user].port)
    /\ instances_lock' = NoTask
    /\ tasks' = AfterStop(t)
    /\ UNCHANGED <<instances, processes, ports_lock, health, requests, load, fanout>>

\* ------------------------------------------------------ init_user_instance
\* Lines 64-72: under a read guard, a Running record is returned as it is.
InitCheck(t) ==
    /\ tasks[t].pc = "init_check"
    /\ InstancesLockFree
    /\ LET u == tasks[t].user IN
        IF AlreadyRunning(u)
        THEN tasks' = [tasks EXCEPT ![t] = Ret(t, 69, "none", instances[u])]
        ELSE tasks' = [tasks EXCEPT ![t].pc = "alloc"]
    /\ UNCHANGED <<instances, processes, allocated_ports, ports_lock,
                   instances_lock, health, requests, load, fanout, granted>>

\* allocate_port, lines 133-153, up to the insert: take the mutex and find a
\* port that is not in the set and that binds; `bound` is what the bind probes
\* meet.  With no such port the guard is dropped and NoPortsAvailable is
\* returned through line 75.
AllocScan(t, bound) ==
    /\ tasks[t].pc = "alloc"
    /\ PortsLockFree
    /\ LET p == ChoosePort(allocated_ports, tasks[t].user, bound) IN
        IF p = NoPort
        THEN /\ tasks' = [tasks EXCEPT ![t] =
                            Ret(t, 75, "NoPortsAvailable", NoInstance)]
             /\ UNCHANGED ports_lock
        ELSE /\ tasks' = [tasks EXCEPT ![t].pc = "alloc_insert", ![t].port = p]
             /\ ports_lock' = t
    /\ UNCHANGED <<instances, processes, allocated_ports, instances_lock,
                   health, requests, load, fanout, granted>>

\* A bug: allocate_port waits for the registry lock before it inserts the
\* port, with the mutex held.
AllocInsertUnderRegistry(t) ==
    /\ tasks[t].pc = "alloc_insert"
    /\ InstancesLockFree
    /\ allocated_ports' = allocated_ports \cup {tasks[t].port}
    /\ granted' = [granted EXCEPT ![tasks[t].port] = @ \cup {tasks[t].user}]
    /\ ports_lock' = NoTask
    /\ tasks' = [tasks EXCEPT ![t].pc = "mkdir"]
    /\ UNCHANGED <<instances, processes, instances_lock, health, requests, load, fanout>>

\* Lines 140-141 and 148-149: insert the port, drop the guard, return it.
AllocInsert(t) ==
    /\ tasks[t].pc = "alloc_insert"
    /\ allocated_ports' = allocated_ports \cup {tasks[t].port}
    /\ granted' = [granted EXCEPT ![tasks[t].port] = @ \cup {tasks[t].user}]
    /\ ports_lock' = NoTask
    /\ tasks' = [tasks EXCEPT ![t].pc = "mkdir"]
    /\ UNCHANGED <<instances, processes, instances_lock, health, requests, load, fanout>>

\* Lines 81-82: create_dir_all; its error is returned by `?` as IoError.
CreateDir(t, ok) ==
    /\ tasks[t].pc = "mkdir"
    /\ tasks' = [tasks EXCEPT ![t] =
          IF ok THEN [tasks[t] EXCEPT !.pc = "spawn"]
          ELSE Ret(t, 82, "IoError", NoInstance)]
    /\ UNCHANGED <<instances, processes, allocated_ports, ports_lock,
                   instances_lock, health, requests, load, fanout, granted>>

\* start_pocketbase_process, lines 175-196: spawn the child, then sleep.
SpawnProcess(t, ok) ==
    /\ tasks[t].pc = "spawn"
    /\ tasks' = [tasks EXCEPT ![t].pc = IF ok THEN "store_proc" ELSE "release"]
    /\ UNCHANGED <<instances, processes, allocated_ports, ports_lock,
                   instances_lock, health, requests, load, fanout, granted>>

\* Lines 118-127: the spawn failed; remove the port and return the error.
ReleaseOnError(t) ==
    /\ tasks[t].pc = "release"
    /\ PortsLockFree
    /\ ReleasePort(tasks[t].port)
    /\ tasks' = [tasks EXCEPT ![t] = Ret(t, 126, "ProcessError", NoInstance)]
    /\ UNCHANGED <<instances, processes, ports_lock, instances_lock, health, requests, load, fanout>>

\* Lines 100-103: insert the child handle (a handle it replaces is dropped).
StoreProcess(t) ==
    /\ tasks[t].pc = "store_proc"
    /\ processes' = [processes EXCEPT ![tasks[t].user] = "alive"]
    /\ tasks' = [tasks EXCEPT ![t].pc = "store_inst"]
    /\ UNCHANGED <<instances, allocated_ports, ports_lock, instances_lock,
                   health, requests, load, fanout, granted>>

\* A store of the instance as it was built at lines 86-94, without the status
\* update of lines 106-107.
StoreInstanceStarting(t) ==
    /\ tasks[t].pc = "store_inst"
    /\ InstancesLockFree
    /\ LET instance == NewInstance(tasks[t].port) IN
        /\ instances' = [instances EXCEPT ![tasks[t].user] = instance]
        /\ tasks' = [tasks EXCEPT ![t] = Ret(t, 116, "none", instance)]
    /\ UNCHANGED <<processes, allocated_ports, ports_lock, instances_lock,
                   health, requests, load, fanout, granted>>

\* Lines 106-116: insert the instance as Running and return it.
StoreInstance(t) ==
    /\ tasks[t].pc = "store_inst"
    /\ InstancesLockFree
    /\ LET updated_instance ==
              [NewInstance(tasks[t].port) EXCEPT !.status = "Running"] IN
        /\ instances' = [instances EXCEPT ![tasks[t].user] = updated_instance]
        /\ tasks' = [tasks EXCEPT ![t] = Ret(t, 116, "none", updated_instance)]
    /\ UNCHANGED <<processes, allocated_ports, ports_lock, instances_lock,
                   health, requests, load, fanout, granted>>

\* -------------------------------------------------------------- environment
\* The child of u exits by itself; try_wait reports it from then on.
ProcessExit(u) ==
    /\ processes[u] = "alive"
    /\ processes' = [processes EXCEPT ![u] = "exited"]
    /\ UNCHANGED <<instances, allocated_ports, ports_lock, instances_lock,
                   tasks, health, requests, load, fanout, granted>>

\* -------------------------------------------------------------- health loop
\* Lines 207-212: the tick fires and the registered ids are collected.
HealthTick ==
    /\ health.pc = "sleep"
    /\ InstancesLockFree
    /\ health' = [health EXCEPT !.pc = "check",
                                !.ids = {u \in Users : Registered(u)}]
    /\ UNCHANGED <<instances, processes, allocated_ports, ports_lock,
                   instances_lock, tasks, requests, load, fanout, granted>>

\* Lines 216-233: try_wait on the handle of the next id; Ok(None) is alive,
\* an exit status, an error of try_wait, or no handle is not alive.
HealthCheckProcess(u, wait_err) ==
    /\ health.pc = "check"
    /\ u \in health.ids
    /\ health' = [health EXCEPT !.pc = "update", !.user = u,
                                !.ids = @ \ {u},
                                !.alive = (processes[u] = "alive" /\ ~wait_err)]
    /\ UNCHANGED <<instances, processes, allocated_ports, ports_lock,
                   instances_lock, tasks, requests, load, fanout, granted>>

\* A bug: an exited process is not noticed.
HealthUpdatedNoFail(instance, process_alive, probe_ok) ==
    IF process_alive /\ probe_ok
    THEN [instance EXCEPT !.last_health_check = "Some", !.status = "Running"]
    ELSE instance

\* A bug: a failed probe marks the instance Failed.
HealthUpdatedProbeFails(instance, process_alive, probe_ok) ==
    IF ~process_alive /\ instance.status = "Running"
    THEN [instance EXCEPT !.status = "Failed"]
    ELSE IF process_alive /\ probe_ok
         THEN [instance EXCEPT !.last_health_check = "Some", !.status = "Running"]
         ELSE IF process_alive
              THEN [instance EXCEPT !.status = "Failed"]
              ELSE instance

\* A bug: the timestamp is set whenever the process is alive, whatever the
\* probe says.
HealthUpdatedStamps(instance, process_alive, probe_ok) ==
    IF ~process_alive /\ instance.status = "Running"
    THEN [instance EXCEPT !.status = "Failed"]
    ELSE IF process_alive /\ probe_ok
         THEN [instance EXCEPT !.last_health_check = "Some", !.status = "Running"]
         ELSE IF process_alive
              THEN [instance EXCEPT !.last_health_check = "Some"]
              ELSE instance

\* The status and timestamp a record gets from lines 239-257.
HealthUpdated(instance, process_alive, probe_ok) ==
    IF ~process_alive /\ instance.status = "Running"
    THEN [instance EXCEPT !.status = "Failed"]
    ELSE IF process_alive /\ probe_ok
         THEN [instance EXCEPT !.last_health_check = "Some", !.status = "Running"]
         ELSE instance

\* Lines 236-259: under the registry write guard, update the record of the id.
HealthUpdate(probe_ok) ==
    /\ health.pc = "update"
    /\ InstancesLockFree
    /\ LET u == health.user IN
        /\ instances' = IF Registered(u)
              THEN [instances EXCEPT ![u] =
                        HealthUpdated(instances[u], health.alive, probe_ok)]
              ELSE instances
        /\ health' = [health EXCEPT !.pc = "check", !.user = "none",
                                    !.alive = FALSE]
    /\ UNCHANGED <<processes, allocated_ports, ports_lock, instances_lock,
                   tasks, requests, load, fanout, granted>>

\* Line 214: the for loop is through; back to interval.tick().
HealthCycleDone ==
    /\ health.pc = "check"
    /\ health.ids = {}
    /\ health' = [health EXCEPT !.pc = "sleep"]
    /\ UNCHANGED <<instances, processes, allocated_ports, ports_lock,
                   instances_lock, tasks, requests, load, fanout, granted>>

HealthStep ==
    \/ HealthTick
    \/ \E u \in Users, wait_err \in BOOLEAN : HealthCheckProcess(u, wait_err)
    \/ \E probe_ok \in BOOLEAN : HealthUpdate(probe_ok)
    \/ HealthCycleDone

TaskStep(t) ==
    \/ \E u \in Users, force \in BOOLEAN : init_user_pocketbase(t, u, force)
    \/ \E u \in Users : stop_user_pocketbase(t, u)
    \/ \E u \in Users : get_user_instance(t, u)
    \/ Respond(t)
    \/ \E killed \in {"ok", "err"} : StopKill(t, killed)
    \/ StopMark(t)
    \/ StopRelease(t)
    \/ InitCheck(t)
    \/ \E bound \in SUBSET Ports : AllocScan(t, bound)
    \/ AllocInsert(t)
    \/ \E ok \in BOOLEAN : CreateDir(t, ok)
    \/ \E ok \in BOOLEAN : SpawnProcess(t, ok)
    \/ ReleaseOnError(t)
    \/ StoreProcess(t)
    \/ StoreInstance(t)

Next ==
    \/ \E t \in Tasks : TaskStep(t)
    \/ \E u \in Users : ProcessExit(u)
    \/ HealthStep

Spec == Init /\ [][Next]_vars

\* The steps of task t inside init_user_instance and stop_user_instance.
InCall(t) ==
    \/ \E killed \in {"ok", "err"} : StopKill(t, killed)
    \/ StopMark(t)
    \/ StopRelease(t)
    \/ InitCheck(t)
    \/ \E bound \in SUBSET Ports : AllocScan(t, bound)
    \/ AllocInsert(t)
    \/ \E ok \in BOOLEAN : CreateDir(t, ok)
    \/ \E ok \in BOOLEAN : SpawnProcess(t, ok)
    \/ ReleaseOnError(t)
    \/ StoreProcess(t)
    \/ StoreInstance(t)

\* The runtime goes on polling a task that can run, and the external calls
\* (kill, bind, spawn, probe) return: a step of a call or of the health loop
\* that stays possible is taken.
SupervisorFair ==
    /\ \A t \in Tasks : WF_vars(InCall(t))
    /\ WF_vars(HealthStep)

\* The same program serving one request more, the requests overlapping, all
\* for one user and none of them a forced restart.
InitBusy ==
    /\ instances = [u \in Users |-> NoInstance]
    /\ processes = [u \in Users |-> NoChild]
    /\ allocated_ports = {}
    /\ ports_lock = NoTask
    /\ instances_lock = NoTask
    /\ tasks = [t \in Tasks |-> IdleTask]
    /\ health = [pc |-> "sleep", ids |-> {}, user |-> "none", alive |-> FALSE]
    /\ requests = 0
    /\ load = [max |-> MaxRequests + 1, serial |-> FALSE]
    /\ granted = [p \in Ports |-> {}]
    /\ meetings_queue = <<>>
    /\ queue_lock = NoHandler
    /\ handlers = [h \in Handlers |-> IdleHandler]
    /\ queue_log = [calls |-> 0, ids |-> 0, mutations |-> <<>>,
                    applied |-> [h \in Handlers |-> 0], published |-> <<>>]
    /\ service = channel(Capacity, Subscribers)
    /\ subscribers = [s \in Subscribers |-> [state |-> "none", since |-> 0]]
    /\ published = <<>>
    /\ received = [s \in Subscribers |-> <<>>]
    /\ forwarder = [pc |-> "spawned", forwarded |-> <<>>]
    /\ queue_sender = channel(TopicCapacity, Conns)
    /\ progress_sender = channel(TopicCapacity, Conns)
    /\ connections = {}
    /\ sockets = [c \in Conns |-> NoSocket]
    /\ traffic = [queue |-> 0, progress |-> 0, pings |-> [c \in Conns |-> 0]]
    /\ workload = [conns |-> Cardinality(Conns), queue |-> MaxQueueUpdates,
                   progress |-> MaxProgressUpdates, pings |-> MaxPings]

\* The user all requests of that run are for.
BusyUsers == {"alice"}

BusyStep(t) ==
    \/ \E u \in BusyUsers : init_user_pocketbase(t, u, FALSE)
    \/ \E u \in BusyUsers : stop_user_pocketbase(t, u)
    \/ \E u \in BusyUsers : get_user_instance(t, u)
    \/ Respond(t)
    \/ InCall(t)

NextBusy ==
    \/ \E t \in Tasks : BusyStep(t)
    \/ \E u \in Users : ProcessExit(u)
    \/ HealthStep

SpecBusy == InitBusy /\ [][NextBusy]_vars /\ SupervisorFair

\* The same program serving one request more, the requests arriving one
\* after another.
InitSerial ==
    /\ instances = [u \in Users |-> NoInstance]
    /\ processes = [u \in Users |-> NoChild]
    /\ allocated_ports = {}
    /\ ports_lock = NoTask
    /\ instances_lock = NoTask
    /\ tasks = [t \in Tasks |-> IdleTask]
    /\ health = [pc |-> "sleep", ids |-> {}, user |-> "none", alive |-> FALSE]
    /\ requests = 0
    /\ load = [max |-> MaxRequests + 1, serial |-> TRUE]
    /\ granted = [p \in Ports |-> {}]
    /\ meetings_queue = <<>>
    /\ queue_lock = NoHandler
    /\ handlers = [h \in Handlers |-> IdleHandler]
    /\ queue_log = [calls |-> 0, ids |-> 0, mutations |-> <<>>,
                    applied |-> [h \in Handlers |-> 0], published |-> <<>>]
    /\ service = channel(Capacity, Subscribers)
    /\ subscribers = [s \in Subscribers |-> [state |-> "none", since |-> 0]]
    /\ published = <<>>
    /\ received = [s \in Subscribers |-> <<>>]
    /\ forwarder = [pc |-> "spawned", forwarded |-> <<>>]
    /\ queue_sender = channel(TopicCapacity, Conns)
    /\ progress_sender = channel(TopicCapacity, Conns)
    /\ connections = {}
    /\ sockets = [c \in Conns |-> NoSocket]
    /\ traffic = [queue |-> 0, progress |-> 0, pings |-> [c \in Conns |-> 0]]
    /\ workload = [conns |-> Cardinality(Conns), queue |-> MaxQueueUpdates,
                   progress |-> MaxProgressUpdates, pings |-> MaxPings]

SpecSerial == InitSerial /\ [][Next]_vars

TypeOK ==
    /\ \A u \in Users :
          \/ instances[u] = NoInstance
          \/ /\ instances[u].port \in Ports
             /\ instances[u].status \in InstanceStatus
             /\ instances[u].last_health_check \in {"None", "Some"}
    /\ processes \in [Users -> {"none", "alive", "exited"}]
    /\ allocated_ports \subseteq Ports
    /\ ports_lock \in Tasks \cup {NoTask}
    /\ instances_lock \in Tasks \cup {NoTask}
    /\ load \in [max : {MaxRequests, MaxRequests + 1}, serial : BOOLEAN]
    /\ requests \in 0 .. load.max

\* ------------------------------------------- BroadcastService operations
supervisor == <<instances, processes, allocated_ports, ports_lock,
                instances_lock, tasks, health, requests, load, granted>>

\* BroadcastService::broadcast (lines 51-57): send the update and log the
\* outcome, an error at line 53 or the update type at line 55; the function
\* returns () either way.
BroadcastService_broadcast(update) ==
    /\ Len(published) < MaxEvents
    /\ LET u == Stamped(update, Len(published) + 1) IN
        /\ service' = send(service, u)
        /\ published' = Append(published,
              [update |-> u,
               logged |-> IF send_is_err(service) THEN "error" ELSE "info"])
    /\ UNCHANGED <<supervisor, manager, api, subscribers, received, forwarder>>

\* BroadcastService::subscribe (lines 46-48), called by a task that keeps
\* the Receiver (websocket.rs line 95).
BroadcastService_subscribe(s) ==
    /\ subscribers[s].state = "none"
    /\ service' = subscribe(service, s)
    /\ subscribers' = [subscribers EXCEPT
          ![s] = [state |-> "live", since |-> Len(published)]]
    /\ UNCHANGED <<supervisor, manager, api, published, received, forwarder>>

\* rx.recv().await of the holder of a Receiver (websocket.rs line 96)
\* returns.
Receiver_recv(s) ==
    /\ subscribers[s].state = "live"
    /\ recv_ready(service, s)
    /\ received' = [received EXCEPT ![s] = Append(@, recv_value(service, s))]
    /\ service' = recv(service, s)
    /\ UNCHANGED <<supervisor, manager, api, subscribers, published, forwarder>>

\* The holder ends and its Receiver is dropped (websocket.rs line 117).
Receiver_drop(s) ==
    /\ subscribers[s].state = "live"
    /\ service' = drop_receiver(service, s)
    /\ subscribers' = [subscribers EXCEPT ![s].state = "dropped"]
    /\ UNCHANGED <<supervisor, manager, api, published, received, forwarder>>

NextHub ==
    \/ \E update \in Updates : BroadcastService_broadcast(update)
    \/ \E s \in Subscribers : BroadcastService_subscribe(s)
    \/ \E s \in Subscribers : Receiver_recv(s)
    \/ \E s \in Subscribers : Receiver_drop(s)

\* The BroadcastService with its publishers and subscribers.
SpecHub == Init /\ [][NextHub]_vars

\* -------------------------------------------- WebSocketManager operations
service_side == <<supervisor, hub, api>>

\* The update as broadcast_queue_update receives it; the timestamp is the
\* number of the call.
QueueUpdate(update, n) ==
    [affected_user_id |-> update.affected_user_id,
     global_position |-> update.global_position,
     timestamp |-> n]

ProgressUpdate(n) == [progress_type |-> "Processing", timestamp |-> n]

\* A bug: every message is serialized as the QueueUpdate variant.
to_string_as_queue(variant, update) ==
    [type |-> "QueueUpdate", update |-> update]

\* serde_json::to_string of a WebSocketMessage (lines 54-61, 210-211,
\* 228-229): the variant name under "type" beside the update.
to_string(variant, update) == [type |-> variant, update |-> update]

\* A bug: every connection is sent every queue update.
should_send_all(update, user_id) == TRUE

\* A bug: an update with neither user nor position is sent to nobody.
should_send_positioned(update, user_id) ==
    IF update.affected_user_id # None
    THEN update.affected_user_id = Some(user_id) \/ user_id = "admin"
    ELSE update.global_position # None

\* Lines 198-207: an update with an affected user goes to that user and to
\* "admin"; one without goes to everyone, with or without a position.
should_send(update, user_id) ==
    IF update.affected_user_id # None
    THEN update.affected_user_id = Some(user_id) \/ user_id = "admin"
    ELSE TRUE

\* WebSocketManager::broadcast_queue_update (lines 262-266): send, and log
\* an error of send.
broadcast_queue_update(update) ==
    /\ traffic.queue < workload.queue
    /\ queue_sender' =
          send(queue_sender, QueueUpdate(update, traffic.queue + 1))
    /\ traffic' = [traffic EXCEPT !.queue = @ + 1]
    /\ UNCHANGED <<service_side, workload, progress_sender, connections, sockets>>

\* WebSocketManager::broadcast_progress_update (lines 269-273).
broadcast_progress_update ==
    /\ traffic.progress < workload.progress
    /\ progress_sender' =
          send(progress_sender, ProgressUpdate(traffic.progress + 1))
    /\ traffic' = [traffic EXCEPT !.progress = @ + 1]
    /\ UNCHANGED <<service_side, workload, queue_sender, connections, sockets>>

\* handle_socket, lines 128-138: the connection enters the table.  The
\* connections are numbered in the order of their arrival and come from
\* different users.
Register(c, user_id) ==
    /\ sockets[c].pc = "none"
    /\ c <= workload.conns
    /\ \A b \in Conns : b < c =>
          sockets[b].pc # "none" /\ sockets[b].user_id # user_id
    /\ connections' = connections \cup {c}
    /\ sockets' = [sockets EXCEPT ![c].pc = "registered",
                                  ![c].user_id = user_id]
    /\ UNCHANGED <<service_side, workload, queue_sender, progress_sender, traffic>>

\* Lines 142-250: subscribe to both topics, spawn the incoming and the
\* outgoing task and wait in select! for either to end.
Spawn(c) ==
    /\ sockets[c].pc = "registered"
    /\ queue_sender' = subscribe(queue_sender, c)
    /\ progress_sender' = subscribe(progress_sender, c)
    /\ sockets' = [sockets EXCEPT ![c].pc = "select",
                                  ![c].incoming = "running",
                                  ![c].outgoing = "running",
                                  ![c].since = [queue |-> queue_sender.pos,
                                                progress |-> progress_sender.pos]]
    /\ UNCHANGED <<service_side, workload, connections, traffic>>

RECURSIVE SumOver(_, _)
SumOver(f, S) ==
    IF S = {} THEN 0
    ELSE LET x == CHOOSE x \in S : TRUE IN f[x] + SumOver(f, S \ {x})

\* The sum of the values of a function.
Sum(f) == SumOver(f, DOMAIN f)

\* The frames receiver.next() yields: the text "ping", another text, a
\* close frame, a read error, a frame of another kind, the end of the stream.
Frames == {"ping", "text", "close", "error", "other", "end"}

\* Lines 159-179: the frames after which the incoming task leaves its loop;
\* a "ping" does when pong_tx.send fails, the receiving half being dropped.
EndsIncoming(frame, pong_rx_dropped) ==
    \/ frame \in {"close", "error", "end"}
    \/ frame = "ping" /\ pong_rx_dropped

\* A bug: every text frame is answered.
QueuesPongForText(frame, pong_rx_dropped) ==
    frame \in {"ping", "text"} /\ ~pong_rx_dropped

\* Lines 163-164: the frame for which a pong is queued.
QueuesPong(frame, pong_rx_dropped) == frame = "ping" /\ ~pong_rx_dropped

\* The incoming task, lines 158-180, takes one frame.
Incoming(c, frame) ==
    /\ sockets[c].incoming = "running"
    /\ frame = "ping" => Sum(traffic.pings) < workload.pings
    /\ traffic' = [traffic EXCEPT
          !.pings[c] = IF frame = "ping" THEN @ + 1 ELSE @]
    /\ LET dropped == sockets[c].outgoing = "finished" IN
        sockets' = [sockets EXCEPT
            ![c].incoming = IF EndsIncoming(frame, dropped)
                            THEN "finished" ELSE @,
            ![c].pongs = IF QueuesPong(frame, dropped) THEN @ + 1 ELSE @]
    /\ UNCHANGED <<service_side, workload, queue_sender, progress_sender, connections>>

\* A bug: a written message is put before the ones written earlier.
WrittenFirst(c, kind, message, ok) ==
    [sockets EXCEPT
        ![c].wire[kind] = IF ~ok THEN @
                          ELSE IF kind = "pong" THEN @ + 1
                          ELSE <<message>> \o @,
        ![c].outgoing = IF ok THEN @ ELSE "finished"]

\* The outgoing task of c after sender_guard.send(message): an error ends
\* the loop and the task, whose Receivers are dropped with it.
Written(c, kind, message, ok) ==
    [sockets EXCEPT
        ![c].wire[kind] = IF ~ok THEN @
                          ELSE IF kind = "pong" THEN @ + 1
                          ELSE Append(@, message),
        ![c].outgoing = IF ok THEN @ ELSE "finished"]

\* Lines 186-193 of the outgoing task: a queued pong is written.
OutgoingPong(c, ok) ==
    /\ sockets[c].outgoing = "running"
    /\ sockets[c].pongs > 0
    /\ sockets' = [Written(c, "pong", "pong", ok) EXCEPT ![c].pongs = @ - 1]
    /\ queue_sender' = IF ok THEN queue_sender
                       ELSE drop_receiver(queue_sender, c)
    /\ progress_sender' = IF ok THEN progress_sender
                          ELSE drop_receiver(progress_sender, c)
    /\ UNCHANGED <<service_side, workload, connections, traffic>>

\* Lines 194-224: queue_rx.recv() returns; an update that passes the filter
\* is written, a lag is logged.
OutgoingQueue(c, ok) ==
    /\ sockets[c].outgoing = "running"
    /\ recv_ready(queue_sender, c)
    /\ LET update == recv_value(queue_sender, c)
           writes == ~IsLagged(update) /\ should_send(update, sockets[c].user_id)
       IN
        /\ sockets' = IF writes
              THEN Written(c, "queue", to_string("QueueUpdate", update), ok)
              ELSE sockets
        /\ queue_sender' = IF writes /\ ~ok
              THEN drop_receiver(queue_sender, c)
              ELSE recv(queue_sender, c)
        /\ progress_sender' = IF writes /\ ~ok
              THEN drop_receiver(progress_sender, c)
              ELSE progress_sender
    /\ UNCHANGED <<service_side, workload, connections, traffic>>

\* A bug: a lag on the progress topic ends the outgoing task.
OutgoingProgressLagEnds(c, ok) ==
    /\ sockets[c].outgoing = "running"
    /\ recv_ready(progress_sender, c)
    /\ LET update == recv_value(progress_sender, c)
           writes == ~IsLagged(update)
       IN
        /\ sockets' = IF writes
              THEN Written(c, "progress",
                           to_string("ProgressUpdate", update), ok)
              ELSE [sockets EXCEPT ![c].outgoing = "finished"]
        /\ progress_sender' = IF writes /\ ok
              THEN recv(progress_sender, c)
              ELSE drop_receiver(progress_sender, c)
        /\ queue_sender' = IF writes /\ ok
              THEN queue_sender
              ELSE drop_receiver(queue_sender, c)
    /\ UNCHANGED <<service_side, workload, connections, traffic>>

\* Lines 225-241: progress_rx.recv() returns; an update is written, a lag
\* is logged.
OutgoingProgress(c, ok) ==
    /\ sockets[c].outgoing = "running"
    /\ recv_ready(progress_sender, c)
    /\ LET update == recv_value(progress_sender, c)
           writes == ~IsLagged(update)
       IN
        /\ sockets' = IF writes
              THEN Written(c, "progress",
                           to_string("ProgressUpdate", update), ok)
              ELSE sockets
        /\ progress_sender' = IF writes /\ ~ok
              THEN drop_receiver(progress_sender, c)
              ELSE recv(progress_sender, c)
        /\ queue_sender' = IF writes /\ ~ok
              THEN drop_receiver(queue_sender, c)
              ELSE queue_sender
    /\ UNCHANGED <<service_side, workload, connections, traffic>>

\* A bug: the table entry is removed only when the incoming task ended.
CleanupAfterIncoming(c) ==
    /\ sockets[c].pc = "select"
    /\ sockets[c].incoming = "finished"
    /\ connections' = connections \ {c}
    /\ sockets' = [sockets EXCEPT ![c].pc = "returned"]
    /\ UNCHANGED <<service_side, workload, queue_sender, progress_sender, traffic>>

\* connection_count (lines 276-278).
connection_count == Cardinality(connections)

\* Lines 247-259: select! returns when either task has ended; the two
\* JoinHandles are dropped, which leaves the other task running; the
\* connection leaves the table and handle_socket returns.
Cleanup(c) ==
    /\ sockets[c].pc = "select"
    /\ "finished" \in {sockets[c].incoming, sockets[c].outgoing}
    /\ connections' = connections \ {c}
    /\ sockets' = [sockets EXCEPT ![c].pc = "returned"]
    /\ UNCHANGED <<service_side, workload, queue_sender, progress_sender, traffic>>

NextManager ==
    \/ \E update \in QueueUpdates : broadcast_queue_update(update)
    \/ broadcast_progress_update
    \/ \E c \in Conns, user_id \in Identities : Register(c, user_id)
    \/ \E c \in Conns : Spawn(c)
    \/ \E c \in Conns, frame \in Frames : Incoming(c, frame)
    \/ \E c \in Conns, ok \in BOOLEAN : OutgoingPong(c, ok)
    \/ \E c \in Conns, ok \in BOOLEAN : OutgoingQueue(c, ok)
    \/ \E c \in Conns, ok \in BOOLEAN : OutgoingProgress(c, ok)
    \/ \E c \in Conns : Cleanup(c)

\* The WebSocketManager with its publishers and connections.
SpecManager == Init /\ [][NextManager]_vars

\* The same program serving a single connection, with one update more on
\* each topic and one ping more.
InitSocket ==
    /\ instances = [u \in Users |-> NoInstance]
    /\ processes = [u \in Users |-> NoChild]
    /\ allocated_ports = {}
    /\ ports_lock = NoTask
    /\ instances_lock = NoTask
    /\ tasks = [t \in Tasks |-> IdleTask]
    /\ health = [pc |-> "sleep", ids |-> {}, user |-> "none", alive |-> FALSE]
    /\ requests = 0
    /\ load = [max |-> MaxRequests, serial |-> FALSE]
    /\ granted = [p \in Ports |-> {}]
    /\ meetings_queue = <<>>
    /\ queue_lock = NoHandler
    /\ handlers = [h \in Handlers |-> IdleHandler]
    /\ queue_log = [calls |-> 0, ids |-> 0, mutations |-> <<>>,
                    applied |-> [h \in Handlers |-> 0], published |-> <<>>]
    /\ service = channel(Capacity, Subscribers)
    /\ subscribers = [s \in Subscribers |-> [state |-> "none", since |-> 0]]
    /\ published = <<>>
    /\ received = [s \in Subscribers |-> <<>>]
    /\ forwarder = [pc |-> "spawned", forwarded |-> <<>>]
    /\ queue_sender = channel(TopicCapacity, Conns)
    /\ progress_sender = channel(TopicCapacity, Conns)
    /\ connections = {}
    /\ sockets = [c \in Conns |-> NoSocket]
    /\ traffic = [queue |-> 0, progress |-> 0, pings |-> [c \in Conns |-> 0]]
    /\ workload = [conns |-> 1, queue |-> MaxQueueUpdates + 1,
                   progress |-> MaxProgressUpdates + 1, pings |-> MaxPings + 1]

SpecSocket == InitSocket /\ [][NextManager]_vars

\* The outgoing task is scheduled again and again, and select! polls its
\* branches in random order, so a branch that stays ready is taken.
OutgoingFair ==
    \A c \in Conns :
        /\ WF_vars(\E ok \in BOOLEAN : OutgoingPong(c, ok))
        /\ WF_vars(\E ok \in BOOLEAN : OutgoingQueue(c, ok))
        /\ WF_vars(\E ok \in BOOLEAN : OutgoingProgress(c, ok))

SpecSocketFair == SpecSocket /\ OutgoingFair

\* ------------------------------------------------ external broadcast forwarder
\* The task WebSocketManager::with_external_broadcast spawns (websocket.rs
\* lines 94-117) holds this Receiver of the BroadcastService.
Forwarder == 1

\* Lines 99-106: the update type of the WebSocket format for each type of the
\* external format.
ws_update_type(update_type) ==
    CASE update_type = "TaskStarted" -> "PositionUpdated"
      [] update_type = "TaskCompleted" -> "MeetingRemoved"
      [] update_type = "TaskFailed" -> "PositionUpdated"
      [] update_type = "TaskRetried" -> "PositionUpdated"
      [] update_type = "PositionUpdated" -> "PositionUpdated"
      [] update_type = "QueueCleared" -> "QueueCleared"

\* Lines 98-111: the QueueUpdate built from an external update; the queue is
\* empty, the other fields are copied.
ws_update(update) ==
    [update_type |-> ws_update_type(update.update_type),
     queue |-> <<>>,
     affected_user_id |-> update.affected_user_id,
     global_position |-> update.global_position,
     timestamp |-> update.timestamp]

\* Line 95: the task runs for the first time and subscribes.
Forwarder_subscribe ==
    /\ forwarder.pc = "spawned"
    /\ service' = subscribe(service, Forwarder)
    /\ subscribers' = [subscribers EXCEPT
          ![Forwarder] = [state |-> "live", since |-> Len(published)]]
    /\ forwarder' = [forwarder EXCEPT !.pc = "running"]
    /\ UNCHANGED <<supervisor, manager, api, published, received>>

\* Lines 96-116: rx.recv() returns.  An update is converted and sent on the
\* queue topic, an error of send being logged; any Err, a lag included,
\* fails the pattern of `while let Ok(update)`, so the loop and the task end
\* and the Receiver is dropped.
Forwarder_recv ==
    /\ forwarder.pc = "running"
    /\ recv_ready(service, Forwarder)
    /\ LET result == recv_value(service, Forwarder) IN
        /\ received' = [received EXCEPT ![Forwarder] = Append(@, result)]
        /\ IF IsLagged(result)
           THEN /\ service' = drop_receiver(service, Forwarder)
                /\ subscribers' = [subscribers EXCEPT
                      ![Forwarder].state = "dropped"]
                /\ forwarder' = [forwarder EXCEPT !.pc = "finished"]
                /\ UNCHANGED queue_sender
           ELSE /\ service' = recv(service, Forwarder)
                /\ queue_sender' = send(queue_sender, ws_update(result))
                /\ forwarder' = [forwarder EXCEPT
                      !.forwarded = Append(@, ws_update(result))]
                /\ UNCHANGED subscribers
    /\ UNCHANGED <<supervisor, api, published, progress_sender, connections,
                   sockets, traffic, workload>>

NextForwarder ==
    \/ \E update \in Updates : BroadcastService_broadcast(update)
    \/ Forwarder_subscribe
    \/ Forwarder_recv

\* The workers broadcasting on the BroadcastService and the forwarder of the
\* WebSocketManager built at main.rs line 69.
SpecForwarder == Init /\ [][NextForwarder]_vars

\* ------------------------------------------------------ queue API operations
\* The rest of the state, which the queue API leaves alone.
queue_side == <<supervisor, hub, progress_sender, connections, sockets,
                workload>>

\* struct QueueResponse (queue.rs lines 30-35), less the message.
QueueResponse(success, data) == [success |-> success, data |-> Some(data)]

\* A bug: an id that no meeting has is taken for that of the first meeting.
position_or_first(queue, id) ==
    LET found == {i \in 1 .. Len(queue) : queue[i].id = id}
    IN  IF found = {} /\ queue = <<>> THEN None
        ELSE IF found = {} THEN Some(0)
        ELSE Some(SetMin(found) - 1)

\* iter().position(|m| m.id == id) (line 104): the 0-based index of the first
\* meeting with that id.
position(queue, id) ==
    LET found == {i \in 1 .. Len(queue) : queue[i].id = id}
    IN  IF found = {} THEN None ELSE Some(SetMin(found) - 1)

\* Vec::remove(pos) (line 105), pos 0-based.
remove(queue, pos) == SubSeq(queue, 1, pos) \o SubSeq(queue, pos + 2, Len(queue))

\* A bug: the meetings after a removed one keep their positions.
renumber_skipped(queue) == queue

\* Lines 106-108: every meeting takes its place in the queue as position.
renumber(queue) ==
    [i \in 1 .. Len(queue) |-> [queue[i] EXCEPT !.position = i]]

\* A bug: the position of the update is the length of the queue after the
\* mutation.
Update_new_length(update_type, queue, user_id, global_position) ==
    [update_type |-> update_type, queue |-> queue,
     affected_user_id |-> Some(user_id),
     global_position |-> Some(Len(queue))]

\* The QueueUpdate a handler builds (lines 69-75, 114-120), before its
\* timestamp is taken.
Update(update_type, queue, user_id, global_position) ==
    [update_type |-> update_type, queue |-> queue,
     affected_user_id |-> Some(user_id),
     global_position |-> Some(global_position)]

\* The update with its timestamp (lines 74, 119), here the number of the
\* publication on the queue topic.
Timestamped(update, n) ==
    [update_type |-> update.update_type, queue |-> update.queue,
     affected_user_id |-> update.affected_user_id,
     global_position |-> update.global_position, timestamp |-> n]

\* add_meetings, lines 49-54: the handler takes the write lock of the queue.
add_meetings(h, user_id) ==
    /\ handlers[h].pc = "idle"
    /\ queue_log.calls < MaxCalls
    /\ queue_lock = NoHandler
    /\ queue_lock' = h
    /\ handlers' = [handlers EXCEPT ![h] =
          [IdleHandler EXCEPT !.pc = "add_locked", !.request = Some(user_id)]]
    /\ queue_log' = [queue_log EXCEPT !.calls = @ + 1]
    /\ UNCHANGED <<queue_side, queue_sender, traffic, meetings_queue>>

\* Lines 55-66: under the lock the meeting is pushed at the end and the queue
\* cloned; then the lock is released.
add_meetings_push(h) ==
    /\ handlers[h].pc = "add_locked"
    /\ LET meeting == Meeting(queue_log.ids + 1, handlers[h].request[1],
                              Len(meetings_queue) + 1)
           queue == Append(meetings_queue, meeting)
       IN
        /\ meetings_queue' = queue
        /\ handlers' = [handlers EXCEPT
              ![h].pc = "add_broadcast",
              ![h].update = Some(Update("meeting_added", queue,
                                        meeting.user_id, meeting.position)),
              ![h].response = Some(QueueResponse(TRUE, queue))]
        /\ queue_log' = [queue_log EXCEPT
              !.ids = @ + 1,
              !.mutations = Append(@, queue),
              !.applied[h] = Len(queue_log.mutations) + 1]
    /\ queue_lock' = NoHandler
    /\ UNCHANGED <<queue_side, queue_sender, traffic>>

\* The update goes to the queue topic with its timestamp, and the handler
\* returns.
Broadcast(h, update) ==
    /\ queue_sender' = send(queue_sender, update)
    /\ traffic' = [traffic EXCEPT !.queue = @ + 1]
    /\ handlers' = [handlers EXCEPT
          ![h].pc = "idle", ![h].request = None, ![h].update = None]
    /\ queue_log' = [queue_log EXCEPT
          !.published = Append(@, [update |-> update,
                                   mutation |-> queue_log.applied[h]])]
    /\ UNCHANGED <<queue_side, meetings_queue, queue_lock>>

\* A bug: the snapshot of the update is read when it is published.
add_meetings_broadcast_late(h) ==
    /\ handlers[h].pc = "add_broadcast"
    /\ Broadcast(h, [Timestamped(handlers[h].update[1], traffic.queue + 1)
                        EXCEPT !.queue = meetings_queue])

\* Lines 69-81: the update is published on the queue topic and the response
\* returned.
add_meetings_broadcast(h) ==
    /\ handlers[h].pc = "add_broadcast"
    /\ Broadcast(h, Timestamped(handlers[h].update[1], traffic.queue + 1))

\* get_queue (lines 85-95): the queue is cloned under the read lock.
get_queue(h) ==
    /\ handlers[h].pc = "idle"
    /\ queue_log.calls < MaxCalls
    /\ queue_lock = NoHandler
    /\ handlers' = [handlers EXCEPT
          ![h].response = Some(QueueResponse(TRUE, meetings_queue))]
    /\ queue_log' = [queue_log EXCEPT !.calls = @ + 1]
    /\ UNCHANGED <<queue_side, queue_sender, traffic, meetings_queue,
                   queue_lock>>

\* remove_meeting, lines 98-103: the handler takes the write lock.
remove_meeting(h, id) ==
    /\ handlers[h].pc = "idle"
    /\ queue_log.calls < MaxCalls
    /\ queue_lock = NoHandler
    /\ queue_lock' = h
    /\ handlers' = [handlers EXCEPT ![h] =
          [IdleHandler EXCEPT !.pc = "remove_locked", !.request = Some(id)]]
    /\ queue_log' = [queue_log EXCEPT !.calls = @ + 1]
    /\ UNCHANGED <<queue_side, queue_sender, traffic, meetings_queue>>

\* Lines 104-111 and 127-136: under the lock a meeting with that id is
\* removed, the rest renumbered and the queue cloned; without such a meeting
\* the queue is cloned as it is and the handler returns.  The lock is
\* released.
remove_meeting_remove(h) ==
    /\ handlers[h].pc = "remove_locked"
    /\ LET pos == position(meetings_queue, handlers[h].request[1])
       IN  IF pos # None
           THEN LET removed == meetings_queue[pos[1] + 1]
                    queue == renumber(remove(meetings_queue, pos[1]))
                IN
                 /\ meetings_queue' = queue
                 /\ handlers' = [handlers EXCEPT
                       ![h].pc = "remove_broadcast",
                       ![h].update = Some(Update("meeting_removed", queue,
                                                 removed.user_id, pos[1] + 1)),
                       ![h].response = Some(QueueResponse(TRUE, queue))]
                 /\ queue_log' = [queue_log EXCEPT
                       !.mutations = Append(@, queue),
                       !.applied[h] = Len(queue_log.mutations) + 1]
           ELSE /\ handlers' = [handlers EXCEPT
                       ![h].pc = "idle", ![h].request = None,
                       ![h].response =
                           Some(QueueResponse(FALSE, meetings_queue))]
                /\ UNCHANGED <<meetings_queue, queue_log>>
    /\ queue_lock' = NoHandler
    /\ UNCHANGED <<queue_side, queue_sender, traffic>>

\* Lines 114-125: the update is published on the queue topic and the
\* response returned.
remove_meeting_broadcast(h) ==
    /\ handlers[h].pc = "remove_broadcast"
    /\ Broadcast(h, Timestamped(handlers[h].update[1], traffic.queue + 1))

NextQueue ==
    \/ \E h \in Handlers : \E user_id \in Users : add_meetings(h, user_id)
    \/ \E h \in Handlers : add_meetings_push(h)
    \/ \E h \in Handlers : add_meetings_broadcast(h)
    \/ \E h \in Handlers : get_queue(h)
    \/ \E h \in Handlers : \E id \in MeetingIds : remove_meeting(h, id)
    \/ \E h \in Handlers : remove_meeting_remove(h)
    \/ \E h \in Handlers : remove_meeting_broadcast(h)

\* The queue API with up to two requests in progress at a time.
SpecQueue == Init /\ [][NextQueue]_vars

\* ------------------------------------------------------------------ claims
\* Task t takes a step of its request.
Steps(t) == tasks'[t].pc # tasks[t].pc

\* The ports returned to u by allocate_port and not released since.
PortsOf(g, u) == {p \in Ports : u \in g[p]}

\* C1: no port is held, unreleased, by two successful allocate_port calls of
\* distinct users.
C1_NoDoubleAllocation == \A p \in Ports : Cardinality(granted[p]) <= 1

\* Two calls of distinct users have both got a port and neither is released.
C1_Witness ==
    \E t \in Tasks, x \in Tasks :
        /\ tasks[t].user # tasks[x].user
        /\ tasks[t].pc \in {"mkdir", "spawn", "store_proc", "store_inst"}
        /\ tasks[x].pc \in {"mkdir", "spawn", "store_proc", "store_inst"}
        /\ tasks[t].user \in granted[tasks[t].port]
        /\ tasks[x].user \in granted[tasks[x].port]

\* C2: every record that is not Stopped has its port in the allocation set,
\* and no two records that are not Stopped have the same port (the registry is
\* a map, so there is at most one record per user).
C2_LivePortsHeld ==
    \A u \in Users :
        (Registered(u) /\ instances[u].status # "Stopped") =>
            /\ instances[u].port \in allocated_ports
            /\ \A v \in Users \ {u} :
                  (Registered(v) /\ instances[v].status # "Stopped") =>
                      instances[v].port # instances[u].port

\* C3: init_user_instance without force_restart on a user whose record is
\* Running returns that record and changes neither the registry, nor the
\* process table, nor the allocation set.
C3_IdempotentInit ==
    [][\A t \in Tasks :
        LET u == tasks[t].user IN
        (/\ tasks[t].pc = "init_check"
         /\ tasks[t].op = "init"
         /\ Steps(t)
         /\ Registered(u)
         /\ instances[u].status = "Running") =>
            /\ tasks'[t].pc = "ret"
            /\ tasks'[t].err = "none"
            /\ tasks'[t].inst = instances[u]
            /\ tasks'[t].port = NoPort
            /\ UNCHANGED <<instances, processes, allocated_ports, granted>>]_vars

\* An Init has returned the record that was already Running.
C3_Witness ==
    \E t \in Tasks :
        /\ tasks[t].pc = "ret"
        /\ tasks[t].op = "init"
        /\ tasks[t].line = 69
        /\ tasks[t].inst.status = "Running"

\* C4: when the spawn fails, neither the registry nor the process table is
\* changed by the call from then on, and the call returns ProcessError with
\* its port removed from the allocation set.
C4_SpawnFailureReleases ==
    [][\A t \in Tasks :
        /\ (tasks[t].pc = "spawn" /\ tasks'[t].pc # "spawn"
                /\ tasks'[t].pc # "store_proc") =>
              /\ tasks'[t].pc = "release"
              /\ UNCHANGED <<instances, processes>>
        /\ (tasks[t].pc = "release" /\ Steps(t)) =>
              /\ tasks'[t].pc = "ret"
              /\ tasks'[t].err = "ProcessError"
              /\ tasks'[t].inst = NoInstance
              /\ tasks[t].port \notin allocated_ports'
              /\ UNCHANGED <<instances, processes>>]_vars

\* An Init has returned ProcessError while the user's earlier record stands.
C4_Witness ==
    \E t \in Tasks :
        /\ tasks[t].pc = "ret"
        /\ tasks[t].err = "ProcessError"
        /\ Registered(tasks[t].user)

\* C5: whenever init_user_instance returns an error, the port it allocated is
\* not in the allocation set.
C5_NoLeakOnInitError ==
    [][\A t \in Tasks :
        (/\ tasks[t].pc \in InitPcs
         /\ tasks'[t].pc = "ret"
         /\ tasks'[t].err # "none") =>
            tasks[t].port \notin allocated_ports']_vars

\* C6: when stop_user_instance returns for a user that has a record, and no
\* Init for that user ran during the stop, the record is Stopped, the user has
\* no handle in the process table and the record's port is not in the
\* allocation set; a kill error changes nothing in this.
C6_ReleaseOnStopAlways ==
    [][\A t \in Tasks :
        LET u == tasks[t].user IN
        (/\ tasks[t].pc \in StopPcs
         /\ tasks'[t].pc \notin StopPcs
         /\ tasks[t].solo
         /\ Registered(u)) =>
            /\ instances'[u].status = "Stopped"
            /\ processes'[u] = NoChild
            /\ instances'[u].port \notin allocated_ports'
            /\ PortsOf(granted', u) \subseteq PortsOf(granted, u) \ {instances[u].port}
            /\ tasks'[t].err = "none"]_vars

\* A stop whose kill reported an error has returned, and the record is
\* Stopped with its port free.
C6_Witness ==
    \E t \in Tasks :
        /\ tasks[t].pc = "ret"
        /\ tasks[t].line = 312
        /\ tasks[t].kill = "err"
        /\ instances[tasks[t].user].status = "Stopped"
        /\ instances[tasks[t].user].port \notin allocated_ports

\* C7: the health loop takes a handle that reports exit as not alive; for an
\* id that is not alive it sets a Running record to Failed and leaves a Failed
\* record Failed, touching nothing else of the record; no step of the loop
\* changes the process table, the allocation set or a request; and a handle
\* that reports exit does so until an Init or a Stop of that user replaces or
\* removes it.
C7_HealthTransition ==
    [][/\ (health.pc = "check" /\ health'.pc = "update"
              /\ processes[health'.user] = "exited") => ~health'.alive
       /\ (health.pc = "update" /\ health'.pc = "check" /\ ~health.alive
              /\ instances[health.user].status \in {"Running", "Failed"}) =>
              instances' = [instances EXCEPT ![health.user].status = "Failed"]
       /\ (health' # health) =>
              UNCHANGED <<processes, allocated_ports, granted, tasks>>
       /\ \A u \in Users :
              (processes[u] = "exited" /\ processes'[u] # "exited") =>
                  \E t \in Tasks :
                      /\ tasks[t].user = u
                      /\ tasks[t].pc \in {"stop_kill", "store_proc"}
                      /\ Steps(t)]_vars

\* A record is Failed, its handle reports exit and the loop is about to
\* update it once more.
C7_Witness ==
    /\ health.pc = "update"
    /\ ~health.alive
    /\ instances[health.user].status = "Failed"
    /\ processes[health.user] = "exited"

\* C8: a force restart of a user whose record is Failed or Running that gets
\* as far as a successful spawn returns a Running instance without a health
\* check; it is the user's record, its port is in the allocation set, and it
\* is the one port held for the user.
C8_ForceRestart ==
    [][\A t \in Tasks :
        LET u == tasks[t].user IN
        (/\ tasks[t].op = "restart"
         /\ tasks[t].prior \in {"Failed", "Running"}
         /\ tasks[t].pc = "store_inst"
         /\ Steps(t)) =>
            /\ tasks'[t].pc = "ret"
            /\ tasks'[t].inst.status = "Running"
            /\ tasks'[t].inst.last_health_check = "None"
            /\ instances'[u] = tasks'[t].inst
            /\ tasks'[t].inst.port \in allocated_ports'
            /\ PortsOf(granted', u) = {tasks'[t].inst.port}]_vars

\* C9: for an id whose process is alive, a successful probe sets
\* last_health_check and makes a Failed or Running record Running; a failed
\* probe leaves the record as it is; and no step of the health loop changes
\* what a request has got or returns.
C9_ProbeOutcome ==
    [][/\ \A probe_ok \in BOOLEAN :
            (HealthUpdate(probe_ok) /\ health.alive /\ Registered(health.user)) =>
                LET old == instances[health.user]
                    new == instances'[health.user]
                IN  /\ probe_ok =>
                        /\ new.last_health_check = "Some"
                        /\ old.status \in {"Failed", "Running"} =>
                              new.status = "Running"
                        /\ new.port = old.port
                    /\ ~probe_ok => new = old
       /\ (health' # health) => UNCHANGED tasks]_vars

\* A probe has succeeded on a record that is Running.
C9_Witness ==
    \E u \in Users :
        /\ instances[u].status = "Running"
        /\ instances[u].last_health_check = "Some"
        /\ processes[u] = "alive"

\* C10: a record that is Stopped stays Stopped until an Init of that user
\* stores a new record.
C10_StoppedIsTerminal ==
    [][\A u \in Users :
        (instances[u].status = "Stopped" /\ instances'[u].status # "Stopped") =>
            \E t \in Tasks :
                /\ tasks[t].user = u
                /\ tasks[t].pc = "store_inst"
                /\ Steps(t)]_vars

\* The updates passed to broadcast so far, in publication order.
PublishedUpdates == [k \in 1 .. Len(published) |-> published[k].update]

IsPrefix(p, q) == Len(p) <= Len(q) /\ p = SubSeq(q, 1, Len(p))

\* C11: broadcast fairness.  A subscriber that subscribed before the first
\* publish, while no more events were published than the capacity asked of
\* the channel, has received a prefix of the published events, in publication
\* order, each once and with no lag indicator; when its recv has nothing left
\* to return it has received exactly the published events.
C11_BroadcastFairness ==
    \A s \in Subscribers :
        (/\ subscribers[s].state # "none"
         /\ subscribers[s].since = 0
         /\ Len(published) <= Capacity)
        => /\ IsPrefix(received[s], PublishedUpdates)
           /\ (subscribers[s].state = "live" /\ ~recv_ready(service, s))
                 => received[s] = PublishedUpdates

\* Both subscribers joined before the first publish and each has received
\* all of as many events as the capacity.
C11_Witness ==
    /\ Len(published) = Capacity
    /\ \A s \in Subscribers :
          /\ subscribers[s] = [state |-> "live", since |-> 0]
          /\ received[s] = PublishedUpdates

\* Number of values sent that the Receiver of s has not read.
Unread(s) == service.pos - service.rx[s]

RECURSIVE Accounted(_)
\* Number of publications a sequence of recv results accounts for: one for
\* each event, n for each Lagged(n).
Accounted(q) ==
    IF q = <<>> THEN 0
    ELSE (IF IsLagged(Head(q)) THEN Head(q).lagged ELSE 1) + Accounted(Tail(q))

\* Each event a subscriber received is the one published right after what the
\* results before it account for: no publication is passed over except under
\* a lag indicator that counts it.
NoSilentLoss(s) ==
    \A k \in 1 .. Len(received[s]) :
        ~IsLagged(received[s][k]) =>
            received[s][k] =
                PublishedUpdates[subscribers[s].since
                                 + Accounted(SubSeq(received[s], 1, k - 1)) + 1]

\* C12 as stated: once Capacity + 1 or more events have been published
\* without the subscriber reading, its next read returns a lag indicator.
C12_LagAtCapacity ==
    \A s \in Subscribers :
        (subscribers[s].state = "live" /\ Unread(s) >= Capacity + 1)
            => IsLagged(recv_value(service, s))

\* C12, amended: lag signaling.  The ring holds the capacity rounded up to a
\* power of two, K; the next read of a subscriber returns a lag indicator
\* exactly when more than K events were published since its last read, and
\* then its following reads return the retained events in publication order:
\* no event is passed over without a lag indicator that counts it.
C12_LagSignaling ==
    \A s \in Subscribers :
        /\ subscribers[s].state = "live" /\ recv_ready(service, s)
              => (IsLagged(recv_value(service, s))
                    <=> Unread(s) > next_power_of_two(Capacity))
        /\ subscribers[s].state # "none" => NoSilentLoss(s)

\* A subscriber let more than K events pass, read a lag indicator and then
\* the oldest retained event.
C12_Witness ==
    \E s \in Subscribers :
        /\ Len(received[s]) = 2
        /\ IsLagged(received[s][1])
        /\ ~IsLagged(received[s][2])
        /\ received[s][2].timestamp = Len(published) - next_power_of_two(Capacity) + 1

\* The publication the next read of s starts from, by its own history alone.
OwnPosition(s) == subscribers[s].since + Accounted(received[s])

\* C13: subscriber independence.  A broadcast call can complete in every
\* state, whatever the subscribers have read; and what the next read of a
\* subscriber returns is fixed by the publications and by its own subscribe
\* and reads alone: nothing to read when it has accounted for all of them, a
\* lag indicator when more than a ring of them is unread, and else the next
\* publication.  A subscriber that never reads changes none of this for
\* another.
C13_SubscriberIndependence ==
    /\ Len(published) < MaxEvents =>
          \A update \in Updates : ENABLED BroadcastService_broadcast(update)
    /\ \A s \in Subscribers :
          subscribers[s].state = "live" =>
            /\ recv_ready(service, s) <=> OwnPosition(s) < Len(published)
            /\ recv_ready(service, s) =>
                  recv_value(service, s) =
                     IF Len(published) - OwnPosition(s) > service.cap
                     THEN [lagged |-> Len(published) - OwnPosition(s) - service.cap]
                     ELSE PublishedUpdates[OwnPosition(s) + 1]

\* One subscriber never read and has lagged; the other, subscribed at the
\* same time, has read every event without a lag indicator.
C13_Witness ==
    \E s, t \in Subscribers :
        /\ subscribers[s] = [state |-> "live", since |-> 0]
        /\ subscribers[t] = [state |-> "live", since |-> 0]
        /\ received[s] = <<>>
        /\ Unread(s) > service.cap
        /\ received[t] = PublishedUpdates

\* C14: no persistence.  Every event a subscriber receives was published
\* after its subscribe; its first received event in particular.
C14_NoPersistence ==
    \A s \in Subscribers :
        \A k \in 1 .. Len(received[s]) :
            ~IsLagged(received[s][k]) =>
                received[s][k].timestamp > subscribers[s].since

\* A subscriber joined while the channel retained an earlier event, and the
\* first thing it received is the event published next.
C14_Witness ==
    \E s \in Subscribers :
        /\ subscribers[s].since > 0
        /\ published[subscribers[s].since].logged = "info"
        /\ received[s] # <<>>
        /\ received[s][1] = PublishedUpdates[subscribers[s].since + 1]

\* The broadcast calls made while the service had no Receiver.
Discarded == {k \in 1 .. Len(published) : published[k].logged = "error"}

InSeq(x, q) == \E k \in 1 .. Len(q) : q[k] = x

\* C15: publishing with no subscriber is not an error.  A broadcast call made
\* while the channel has no Receiver can complete; its update is retained
\* nowhere and reaches no subscriber; and the channel is as if the call had
\* not been made, its position counting the other calls only, so that later
\* subscribes and publishes proceed from there.
C15_PublishWithoutSubscribers ==
    /\ (receiver_count(service) = 0 /\ Len(published) < MaxEvents) =>
          \A update \in Updates : ENABLED BroadcastService_broadcast(update)
    /\ \A k \in Discarded :
          /\ ~InSeq(published[k].update, service.buf)
          /\ \A s \in Subscribers : ~InSeq(published[k].update, received[s])
    /\ service.pos = Len(published) - Cardinality(Discarded)

\* An update was discarded for want of subscribers; a subscriber joined after
\* it and received the update published next.
C15_Witness ==
    \E s \in Subscribers :
        /\ subscribers[s].since \in Discarded
        /\ Len(published) > subscribers[s].since
        /\ received[s] = <<PublishedUpdates[subscribers[s].since + 1]>>

\* The outgoing task of c takes the next value of a topic and stays alive:
\* its Receiver moves on and is not dropped, so a write it made succeeded.
Consumes(topic, c) ==
    /\ topic.rx[c] # NoReceiver
    /\ topic'.rx[c] # NoReceiver
    /\ topic'.rx[c] # topic.rx[c]

\* The queue updates written to connection c.
WrittenQueue(c) ==
    {sockets[c].wire.queue[k].update : k \in 1 .. Len(sockets[c].wire.queue)}

\* C16: recipient filtering.  Every queue update written to a connection
\* either has no affected user, or its affected user is the connection's
\* identity, or the connection's identity is "admin"; and a connection whose
\* identity is "admin" is written every update with an affected user that its
\* outgoing task takes from the queue topic.
C16_RecipientFiltering ==
    [][\A c \in Conns :
          /\ \A u \in WrittenQueue(c)' :
                \/ u.affected_user_id = None
                \/ u.affected_user_id = Some(sockets[c].user_id)
                \/ sockets[c].user_id = "admin"
          /\ (/\ Consumes(queue_sender, c)
              /\ ~IsLagged(recv_value(queue_sender, c))
              /\ recv_value(queue_sender, c).affected_user_id # None
              /\ sockets[c].user_id = "admin")
             => sockets'[c].wire.queue =
                   Append(sockets[c].wire.queue,
                          [type |-> "QueueUpdate",
                           update |-> recv_value(queue_sender, c)])
      ]_vars

\* Connections of "alice" and of "admin" were both subscribed when one
\* update with affected user "bob" was published; both outgoing tasks have
\* taken it, and it was written to the connection of "admin" alone.
C16_Witness ==
    \E a, b \in Conns :
        /\ sockets[a].user_id = "alice"
        /\ sockets[b].user_id = "admin"
        /\ traffic.queue = 1
        /\ sockets[a].since.queue = 0
        /\ sockets[b].since.queue = 0
        /\ queue_sender.rx[a] = 1
        /\ queue_sender.rx[b] = 1
        /\ sockets[a].wire.queue = <<>>
        /\ Len(sockets[b].wire.queue) = 1
        /\ sockets[b].wire.queue[1].update.affected_user_id = Some("bob")

\* C17: global broadcast.  A queue update without affected user that the
\* outgoing task of a connection takes from the queue topic is written to
\* that connection, whatever its identity and whether or not the update has
\* a global position.
C17_GlobalBroadcast ==
    [][\A c \in Conns :
          (/\ Consumes(queue_sender, c)
           /\ ~IsLagged(recv_value(queue_sender, c))
           /\ recv_value(queue_sender, c).affected_user_id = None)
          => sockets'[c].wire.queue =
                Append(sockets[c].wire.queue,
                       [type |-> "QueueUpdate",
                        update |-> recv_value(queue_sender, c)])
      ]_vars

\* Two connections of different identities were each written the same
\* update that has neither affected user nor global position.
C17_Witness ==
    \E a, b \in Conns :
        /\ sockets[a].user_id = "alice"
        /\ sockets[b].user_id = "admin"
        /\ Len(sockets[a].wire.queue) = 1
        /\ sockets[a].wire.queue = sockets[b].wire.queue
        /\ sockets[a].wire.queue[1].update.affected_user_id = None
        /\ sockets[a].wire.queue[1].update.global_position = None

\* C18: progress updates are delivered unfiltered.  A progress update that
\* the outgoing task of a connection takes from the progress topic is written
\* to that connection as a ProgressUpdate message, whatever the identity.
C18_ProgressUnfiltered ==
    [][\A c \in Conns :
          (/\ Consumes(progress_sender, c)
           /\ ~IsLagged(recv_value(progress_sender, c)))
          => sockets'[c].wire.progress =
                Append(sockets[c].wire.progress,
                       [type |-> "ProgressUpdate",
                        update |-> recv_value(progress_sender, c)])
      ]_vars

\* The connection of "alice" was written both progress updates of the run.
C18_Witness ==
    \E c \in Conns :
        /\ sockets[c].user_id = "alice"
        /\ Len(sockets[c].wire.progress) = 2
        /\ sockets[c].wire.progress[1].type = "ProgressUpdate"
        /\ sockets[c].wire.progress[2].update.timestamp = 2

\* C19: heartbeat.  While the outgoing task of a connection runs, the pongs
\* written to the connection and those queued for it are together as many
\* as the "ping" frames read from it, so that each ping has one pong and no
\* other frame has any; every ping read is followed by its pong on the wire
\* unless the outgoing task ends first; a text frame other than "ping"
\* queues nothing, and a close frame or a read error ends the incoming task.
C19_Heartbeat ==
    /\ [](\A c \in Conns :
            /\ sockets[c].wire.pong + sockets[c].pongs <= traffic.pings[c]
            /\ sockets[c].outgoing = "running" =>
                  sockets[c].wire.pong + sockets[c].pongs = traffic.pings[c])
    /\ [][\A c \in Conns :
            /\ Incoming(c, "text") => sockets'[c].pongs = sockets[c].pongs
            /\ (Incoming(c, "close") \/ Incoming(c, "error"))
                  => sockets'[c].incoming = "finished"
         ]_vars
    /\ \A c \in Conns : \A n \in 1 .. MaxPings + 1 :
          (traffic.pings[c] >= n)
             ~> (sockets[c].wire.pong >= n \/ sockets[c].outgoing = "finished")

\* Two pings were read from a connection and two pongs written to it, both
\* tasks still running.
C19_Witness ==
    \E c \in Conns :
        /\ traffic.pings[c] = 2
        /\ sockets[c].wire.pong = 2
        /\ sockets[c].incoming = "running"
        /\ sockets[c].outgoing = "running"

\* C20: connection termination tears down both duties.  Once handle_socket
\* has returned for a connection, neither of its tasks takes a further step:
\* no further ping is read from it, no further value is taken from either
\* topic for it, nothing more is written to it and neither task changes its
\* state.
C20_BothDutiesTornDown ==
    [][\A c \in Conns :
          sockets[c].pc = "returned" =>
             /\ sockets'[c] = sockets[c]
             /\ traffic'.pings[c] = traffic.pings[c]
             /\ queue_sender'.rx[c] = queue_sender.rx[c]
             /\ progress_sender'.rx[c] = progress_sender.rx[c]
      ]_vars

\* The handle_socket calls that have registered and not yet cleaned up.
Open == {c \in Conns : sockets[c].pc \in {"registered", "select"}}

\* C21: connection table cleanup.  The table holds exactly the connections
\* whose handle_socket call has registered and not yet returned, so
\* connection_count is their number and is 0 once every call has returned;
\* and as soon as either task of a connection has ended, by a close frame, a
\* read error, the end of the stream, a failed write or a failed pong send,
\* the removal is enabled.
C21_TableCleanup ==
    /\ connections = Open
    /\ connection_count = Cardinality(Open)
    /\ (\A c \in Conns : sockets[c].pc \in {"none", "returned"})
          => connection_count = 0
    /\ \A c \in Conns :
          (/\ sockets[c].pc = "select"
           /\ "finished" \in {sockets[c].incoming, sockets[c].outgoing})
          => ENABLED Cleanup(c)

\* Two connections have come and gone, one ended by its incoming task and
\* one by a failed write of its outgoing task; the table is empty again.
C21_Witness ==
    \E a, b \in Conns :
        /\ sockets[a].pc = "returned"
        /\ sockets[a].incoming = "finished"
        /\ sockets[a].outgoing = "running"
        /\ sockets[b].pc = "returned"
        /\ sockets[b].incoming = "running"
        /\ sockets[b].outgoing = "finished"
        /\ connection_count = 0

\* The next recv of connection c on the topic returns Err(Lagged).
Lagging(topic, c) == recv_ready(topic, c) /\ IsLagged(recv_value(topic, c))

\* The newest value the topic retains.
Newest(topic) == topic.buf[Len(topic.buf)]

\* The update of the last message of a wire history, if any.
LastWritten(w) == IF w = <<>> THEN None ELSE Some(w[Len(w)].update)

\* C22: a lag is not fatal and not visible.  The step of the outgoing task
\* that takes a lag from the queue topic or from the progress topic writes
\* nothing to the connection, leaves both tasks and the table entry as they
\* were, and leaves the Receiver at a retained value, which the next recv
\* returns; and a connection that lags on a topic goes on until its outgoing
\* task ended or it has taken everything published on that topic, the newest
\* value being the last one written (for the queue topic, if it passes the
\* filter).
C22_LagNotFatal ==
    /\ [][\A c \in Conns :
            /\ (/\ Lagging(queue_sender, c)
                /\ \E ok \in BOOLEAN : OutgoingQueue(c, ok)) =>
                  /\ sockets'[c] = sockets[c]
                  /\ connections' = connections
                  /\ recv_ready(queue_sender', c)
                  /\ ~Lagging(queue_sender', c)
            /\ (/\ Lagging(progress_sender, c)
                /\ \E ok \in BOOLEAN : OutgoingProgress(c, ok)) =>
                  /\ sockets'[c] = sockets[c]
                  /\ connections' = connections
                  /\ recv_ready(progress_sender', c)
                  /\ ~Lagging(progress_sender', c)
         ]_vars
    /\ \A c \in Conns :
          /\ Lagging(queue_sender, c)
                ~> \/ sockets[c].outgoing = "finished"
                   \/ /\ queue_sender.rx[c] = queue_sender.pos
                      /\ queue_sender.buf # <<>>
                      /\ should_send(Newest(queue_sender), sockets[c].user_id)
                            => LastWritten(sockets[c].wire.queue) =
                                  Some(Newest(queue_sender))
          /\ Lagging(progress_sender, c)
                ~> \/ sockets[c].outgoing = "finished"
                   \/ /\ progress_sender.rx[c] = progress_sender.pos
                      /\ progress_sender.buf # <<>>
                      /\ LastWritten(sockets[c].wire.progress) =
                            Some(Newest(progress_sender))

\* A connection subscribed before anything was published has been written
\* the second queue update and the second progress update and not the first
\* of either: it lagged on both topics, and its tasks are still running.
C22_Witness ==
    \E c \in Conns :
        /\ sockets[c].since = [queue |-> 0, progress |-> 0]
        /\ Len(sockets[c].wire.queue) = 1
        /\ sockets[c].wire.queue[1].update.timestamp = 2
        /\ Len(sockets[c].wire.progress) = 1
        /\ sockets[c].wire.progress[1].update.timestamp = 2
        /\ sockets[c].incoming = "running"
        /\ sockets[c].outgoing = "running"

\* The publication numbers of the messages of a wire history are strictly
\* increasing and lie between the number published at subscription and the
\* number published so far.
InPublicationOrder(w, since, sent) ==
    /\ \A k \in 1 .. Len(w) :
          w[k].update.timestamp > since /\ w[k].update.timestamp <= sent
    /\ \A j, k \in 1 .. Len(w) :
          j < k => w[j].update.timestamp < w[k].update.timestamp

C24_SnapshotConsistency ==
    /\ \A k \in 1 .. Len(queue_log.published) :
          LET e == queue_log.published[k]
          IN  /\ e.mutation \in 1 .. Len(queue_log.mutations)
              /\ e.update.queue = queue_log.mutations[e.mutation]
    /\ \A h \in Handlers :
          /\ handlers[h].pc \in {"add_locked", "remove_locked"}
                <=> queue_lock = h
          /\ handlers[h].pc \in {"add_broadcast", "remove_broadcast"} =>
                /\ queue_lock # h
                /\ handlers[h].update[1].queue =
                      queue_log.mutations[queue_log.applied[h]]

\* A request has published its snapshot after the mutation of another
\* request had changed the queue: the snapshot is that of its own mutation
\* and no longer the queue.
C24_Witness ==
    \E k \in 1 .. Len(queue_log.published) :
        LET e == queue_log.published[k]
        IN  /\ Len(queue_log.published) = k
            /\ e.mutation < Len(queue_log.mutations)
            /\ e.update.queue # meetings_queue
            /\ e.update.queue = queue_log.mutations[e.mutation]

\* C25: broadcast order follows mutation order.  The updates are published
\* in the order in which their mutations were applied to the queue, so that
\* once every request has completed the last published snapshot is the
\* queue.
C25_BroadcastOrder ==
    /\ \A j, k \in 1 .. Len(queue_log.published) :
          j < k => queue_log.published[j].mutation
                      < queue_log.published[k].mutation
    /\ (/\ \A h \in Handlers : handlers[h].pc = "idle"
        /\ queue_log.published # <<>>)
       => queue_log.published[Len(queue_log.published)].update.queue
             = meetings_queue

\* The positions at which a request task takes the allocated_ports mutex and
\* those at which it takes the registry lock.
AcquiresPorts(t) == tasks[t].pc \in {"alloc", "release", "stop_release"}
AcquiresRegistry(t) == tasks[t].pc \in {"init_check", "store_inst", "stop_mark"}

\* C26: the allocation-set lock and the registry lock are independent.  No
\* request task is about to take the allocated_ports mutex while it holds
\* the registry guard, nor the registry lock while it holds the mutex, and
\* the health loop, which takes only the registry lock, never holds the
\* mutex.
C26_LocksIndependent ==
    /\ \A t \in Tasks :
          /\ ~(instances_lock = t /\ AcquiresPorts(t))
          /\ ~(ports_lock = t /\ AcquiresRegistry(t))
    /\ ports_lock \in Tasks \cup {NoTask}

\* The ports of the scan, base_port + 1 and up, that are neither in the
\* allocation set nor bound.
FreeOfScan(ports, bound) ==
    {p \in Ports \ {BasePort} : p \notin ports /\ p \notin bound}

\* C27: the allocation algorithm.  A scan of allocate_port for user u, with
\* `bound` the ports bound from outside, chooses the preferred port of u when
\* it is neither allocated nor bound; otherwise the first free port of the
\* scan; a chosen port lies in the range; and the scan fails with
\* NoPortsAvailable only when every port of the range is allocated or bound,
\* leaving the allocation set as it was.
C27_AllocationAlgorithm ==
    [][\A t \in Tasks : \A bound \in SUBSET Ports :
          AllocScan(t, bound) =>
             LET preferred == PreferredPort(tasks[t].user)
                 free == FreeOfScan(allocated_ports, bound)
                 chosen == tasks'[t].pc = "alloc_insert"
             IN  /\ (preferred \notin allocated_ports /\ preferred \notin bound)
                       => chosen /\ tasks'[t].port = preferred
                 /\ (/\ preferred \in allocated_ports \cup bound
                     /\ free # {})
                       => chosen /\ tasks'[t].port = SetMin(free)
                 /\ chosen => tasks'[t].port \in Ports
                 /\ tasks'[t].err = "NoPortsAvailable" =>
                       /\ Ports \subseteq allocated_ports \cup bound
                       /\ allocated_ports' = allocated_ports
      ]_vars

\* The port a step of task t releases, if it is a release: the port of the
\* record at the end of stop_user_instance, the port of the call on the
\* spawn-failure path of init_user_instance.
Releases(t) ==
    IF ~Steps(t) THEN None
    ELSE IF tasks[t].pc = "stop_release"
         THEN Some(instances[tasks[t].user].port)
    ELSE IF tasks[t].pc = "release" THEN Some(tasks[t].port)
    ELSE None

\* C28: releasing a port that is not held is a no-op.  A release of a port
\* that is not in the allocation set leaves the set unchanged, so every port
\* of a record stays in the set if it was there.
C28_ReleaseNotHeld ==
    [][\A t \in Tasks :
          (/\ Releases(t) # None
           /\ Releases(t)[1] \notin allocated_ports) =>
             /\ allocated_ports' = allocated_ports
             /\ \A u \in Users :
                   instances[u].port \in allocated_ports
                      => instances'[u].port \in allocated_ports'
      ]_vars

\* Both tasks have returned from a Stop of the same user, one after the
\* other, after an Init had registered the user: the second Stop released a
\* port that the first had released already.
C28_Witness ==
    \E t, x \in Tasks : \E u \in Users :
        /\ t # x
        /\ requests = 3
        /\ tasks[t].pc = "ret" /\ tasks[t].op = "stop" /\ tasks[t].user = u
        /\ tasks[x].pc = "ret" /\ tasks[x].op = "stop" /\ tasks[x].user = u
        /\ instances[u].status = "Stopped"
        /\ instances[u].port \notin allocated_ports

\* The ids get_all_instances returns.
ListInstances == {u \in Users : Registered(u)}

\* C29: registry records are retained.  No step removes a user from the
\* registry, so the ids of ListInstances only grow; and the record of a
\* stopped user keeps status Stopped until the step of an Init of that user
\* that stores a new record.
C29_RecordsRetained ==
    [][/\ ListInstances \subseteq ListInstances'
       /\ \A u \in Users :
             (instances[u].status = "Stopped"
                 /\ instances'[u].status # "Stopped")
             => \E t \in Tasks : /\ tasks[t].pc = "store_inst"
                                 /\ tasks[t].user = u
                                 /\ Steps(t)
      ]_vars

\* C30: last_health_check is None until the first successful probe.  The
\* record an Init stores has last_health_check None; it goes from None to
\* Some only in the update of the health loop for that user, with the
\* process alive and the probe successful; and an update after a failed
\* probe or for a process that is not alive, and every step of a Stop, leave
\* the last_health_check of every record as it was.
C30_LastHealthCheck ==
    [][/\ \A u \in Users :
             /\ (\E t \in Tasks : /\ tasks[t].pc = "store_inst"
                                  /\ tasks[t].user = u
                                  /\ Steps(t))
                   => instances'[u].last_health_check = "None"
             /\ (/\ instances[u].last_health_check = "None"
                 /\ instances'[u].last_health_check = "Some")
                   => /\ HealthUpdate(TRUE)
                      /\ health.user = u
                      /\ health.alive
       /\ ((HealthUpdate(FALSE) \/ HealthUpdate(TRUE)) /\ ~health.alive)
             => \A u \in Users : instances'[u].last_health_check
                                    = instances[u].last_health_check
       /\ (HealthUpdate(FALSE) /\ health.alive)
             => \A u \in Users : instances'[u].last_health_check
                                    = instances[u].last_health_check
       /\ (\E t \in Tasks : tasks[t].pc \in StopPcs /\ Steps(t))
             => \A u \in Users : instances'[u].last_health_check
                                    = instances[u].last_health_check
      ]_vars

\* The health loop has found the process of a record exited, and the record,
\* never probed with success, is Failed with last_health_check None.
C30_Witness ==
    \E u \in Users :
        /\ instances[u].status = "Failed"
        /\ instances[u].last_health_check = "None"
        /\ processes[u] = "exited"

\* No request is in progress: every task is between two requests or has
\* returned.
Quiet == \A t \in Tasks : tasks[t].pc \in {"idle", "ret"}

\* C31: no leaked ports.  Whenever no request is in progress, every port of
\* the allocation set is the port of a registry record that is not Stopped,
\* and no user has more than one port allocated on its behalf; so after an
\* Init on a user whose record is Failed at most one port is held for that
\* user.
C31_NoLeakedPorts ==
    Quiet =>
       /\ \A p \in allocated_ports :
             \E u \in Users : /\ Registered(u)
                              /\ instances[u].port = p
                              /\ instances[u].status # "Stopped"
       /\ \A u \in Users : Cardinality(PortsOf(granted, u)) <= 1

\* Task t is inside init_user_instance for u, called without force_restart,
\* and has spawned its process.
HasSpawned(t, u) ==
    /\ tasks[t].op = "init"
    /\ tasks[t].user = u
    /\ tasks[t].pc \in {"store_proc", "store_inst"}

\* C32: concurrent Init for the same user is race-free.  While two Init
\* calls for a user that has never had a record are both under way, at most
\* one of them has spawned a process for that user.
C32_ConcurrentInit ==
    \A u \in Users : \A t, x \in Tasks :
        (t # x /\ ~Registered(u)) => ~(HasSpawned(t, u) /\ HasSpawned(x, u))

\* A stop_user_instance call for u is between its entry and its return.
StopRunning(u) ==
    \E t \in Tasks : tasks[t].user = u /\ tasks[t].pc \in StopPcs

\* C33: a registry record with status Running has a process handle of that
\* user in the process table, in every state in which no Stop of that user
\* is between removing the handle and marking the record.
C33_RunningHasProcess ==
    \A u \in Users :
        (instances[u].status = "Running" /\ ~StopRunning(u))
            => processes[u] # NoChild

\* Task t is inside init_user_instance or stop_user_instance.
Calling(t) == tasks[t].pc \in InitPcs \cup StopPcs

\* C34: deadlock freedom of the supervisor.  While some call is under way
\* some call can take a step; the holder of a lock is inside a call and can
\* take a step or waits for the mutex of the allocation set, whose holder
\* can; and whenever calls are under way, a state follows in which every
\* call has returned, so every lock that was taken has been released.
C34_DeadlockFreedom ==
    /\ []((\E t \in Tasks : Calling(t))
             => \E t \in Tasks : Calling(t) /\ ENABLED InCall(t))
    /\ [](\A t \in Tasks :
             (instances_lock = t \/ ports_lock = t) =>
                /\ Calling(t)
                /\ \/ ENABLED InCall(t)
                   \/ \E x \in Tasks : ports_lock = x /\ ENABLED InCall(x))
    /\ (\E t \in Tasks : Calling(t)) ~> (\A t \in Tasks : ~Calling(t))

\* A Stop holds the registry write guard and waits for the mutex of the
\* allocation set, which an Init holds inside allocate_port.
C34_Witness ==
    \E t, x \in Tasks :
        /\ t # x
        /\ instances_lock = t
        /\ tasks[t].pc = "stop_release"
        /\ ports_lock = x
        /\ tasks[x].pc = "alloc_insert"

\* C35: the status Starting is never observable in the registry. Every record
\* that init_user_pocketbase inserts has the status Running, so every record
\* of the registry, every record a status request returns and every record
\* ListInstances returns has the status Running, Failed or Stopped.
Observable == {"Running", "Failed", "Stopped"}

C35_StartingNeverObservable ==
    /\ [](\A u \in Users :
            Registered(u) => instances[u].status \in Observable)
    /\ [](\A t \in Tasks :
            (tasks[t].pc = "ret" /\ tasks[t].inst # NoInstance)
                => tasks[t].inst.status \in Observable)
    /\ [](\A u \in ListInstances : instances[u].status \in Observable)
    /\ [][\A t \in Tasks : StoreInstance(t)
            => instances'[tasks[t].user].status = "Running"]_vars

\* A status request returns the record that an initialization has just
\* inserted, while the other task is still inside a call.
C35_Witness ==
    \E t \in Tasks, x \in Tasks :
        /\ tasks[t].pc = "ret" /\ tasks[t].op = "status"
        /\ tasks[t].inst # NoInstance /\ tasks[t].inst.status = "Running"
        /\ tasks[x].pc = "ret" /\ tasks[x].op = "init" /\ tasks[x].line = 116
        /\ tasks[x].user = tasks[t].user

\* C36: the forwarder task from the external BroadcastService to the queue
\* topic treats a lag on its own subscription as non-fatal.  It never ends;
\* every update it has sent carries the affected user, the global position
\* and the timestamp of the update it read; and once it has nothing left to
\* read, the last update published since it subscribed is the last it sent.
Forwards(sent, original) ==
    /\ sent.affected_user_id = original.affected_user_id
    /\ sent.global_position = original.global_position
    /\ sent.timestamp = original.timestamp

C36_ForwarderSurvivesLag ==
    /\ forwarder.pc # "finished"
    /\ \A k \in 1 .. Len(forwarder.forwarded) :
          LET sent == forwarder.forwarded[k] IN
            /\ sent.timestamp \in 1 .. Len(published)
            /\ Forwards(sent, published[sent.timestamp].update)
    /\ (/\ forwarder.pc # "spawned"
        /\ ~recv_ready(service, Forwarder)
        /\ Len(published) > subscribers[Forwarder].since)
           => /\ forwarder.forwarded # <<>>
              /\ Forwards(forwarder.forwarded[Len(forwarder.forwarded)],
                          published[Len(published)].update)

\* C37: queue positions are contiguous.  The meeting at index i (0-based) of
\* the queue has position i + 1, so the positions are exactly 1..n; and the
\* meetings keep the relative order of their insertion, here the order of
\* their ids.
C37_PositionsContiguous ==
    /\ \A i \in 1 .. Len(meetings_queue) : meetings_queue[i].position = i
    /\ {meetings_queue[i].position : i \in 1 .. Len(meetings_queue)}
          = 1 .. Len(meetings_queue)
    /\ \A i, j \in 1 .. Len(meetings_queue) :
          i < j => meetings_queue[i].id < meetings_queue[j].id

\* The first of two meetings was removed and the second has moved up.
C37_Witness ==
    /\ Len(meetings_queue) = 1
    /\ meetings_queue[1].id = 2
    /\ meetings_queue[1].position = 1
    /\ queue_lock = NoHandler

\* The queue before and after the m-th mutation.
Before(m) == IF m = 1 THEN <<>> ELSE queue_log.mutations[m - 1]
After(m) == queue_log.mutations[m]

\* The handlers that have mutated the queue and not yet published.
Unpublished == {h \in Handlers :
                   handlers[h].pc \in {"add_broadcast", "remove_broadcast"}}

\* C38: queue event metadata.  The update of an add has the kind
\* MeetingAdded, the user of the added meeting and the new length of the
\* queue as position; the update of a removal has the kind MeetingRemoved,
\* the user of the removed meeting and its 1-based position before the
\* removal; and every successful mutation is published exactly once.
C38_EventMetadata ==
    /\ \A k \in 1 .. Len(queue_log.published) :
          LET e == queue_log.published[k]
              update == e.update
              old == Before(e.mutation)
              new == After(e.mutation)
          IN  IF Len(new) = Len(old) + 1
              THEN /\ update.update_type = "meeting_added"
                   /\ update.affected_user_id = Some(new[Len(new)].user_id)
                   /\ update.global_position = Some(Len(new))
              ELSE /\ Len(new) = Len(old) - 1
                   /\ update.update_type = "meeting_removed"
                   /\ \E i \in 1 .. Len(old) :
                         /\ \A j \in 1 .. Len(new) : new[j].id # old[i].id
                         /\ update.affected_user_id = Some(old[i].user_id)
                         /\ update.global_position = Some(i)
    /\ \A j, k \in 1 .. Len(queue_log.published) :
          j # k => queue_log.published[j].mutation
                      # queue_log.published[k].mutation
    /\ \A h, g \in Unpublished :
          h # g => queue_log.applied[h] # queue_log.applied[g]
    /\ {queue_log.published[k].mutation :
            k \in 1 .. Len(queue_log.published)}
          \cup {queue_log.applied[h] : h \in Unpublished}
          = 1 .. Len(queue_log.mutations)
    /\ Len(queue_log.published) + Cardinality(Unpublished)
          = Len(queue_log.mutations)

\* The first of two meetings of different users was removed and the update
\* of the removal published: its position is 1 and the queue it left has
\* one meeting, of the other user.
C38_Witness ==
    \E k \in 1 .. Len(queue_log.published) :
        LET update == queue_log.published[k].update
        IN  /\ update.update_type = "meeting_removed"
            /\ update.global_position = Some(1)
            /\ Len(update.queue) = 1
            /\ update.affected_user_id # Some(update.queue[1].user_id)
            /\ Len(queue_log.published) = Len(queue_log.mutations)

\* No meeting of the queue has this id.
Unknown(id) == \A i \in 1 .. Len(meetings_queue) : meetings_queue[i].id # id

\* C39: not found is a no-op.  remove_meeting with an id that no meeting of
\* the queue has leaves the queue unchanged, publishes no QueueUpdate, neither
\* at once nor later, and reports success = false with the unchanged queue.
C39_NotFoundNoOp ==
    [][\A h \in Handlers :
          (remove_meeting_remove(h) /\ Unknown(handlers[h].request[1]))
             => /\ meetings_queue' = meetings_queue
                /\ queue_sender' = queue_sender
                /\ traffic' = traffic
                /\ queue_log'.published = queue_log.published
                /\ queue_log'.mutations = queue_log.mutations
                /\ handlers'[h].pc = "idle"
                /\ handlers'[h].update = None
                /\ handlers'[h].response =
                      Some([success |-> FALSE,
                            data |-> Some(meetings_queue)])]_vars

\* A removal with an unknown id has returned: the queue still holds a
\* meeting, nothing was published for the call and the response carries the
\* queue.
C39_Witness ==
    \E h \in Handlers :
        /\ handlers[h].pc = "idle"
        /\ handlers[h].response # None
        /\ handlers[h].response[1].success = FALSE
        /\ handlers[h].response[1].data = Some(meetings_queue)
        /\ meetings_queue # <<>>
        /\ Len(queue_log.published) = Len(queue_log.mutations)

\* The registry, the process table and the allocation set.
Supervised == <<instances, processes, allocated_ports>>

\* C40: stopping an unknown user is a no-op.  A step of stop_user_instance
\* that finds no process handle, and one that finds no record, leave the
\* registry, the process table and the allocation set unchanged, and the
\* call of a user without a record returns Ok; and stop_user_instance
\* returns Ok on every path: a stop request that has returned has done so
\* at line 312 without an error, whatever the kill reported.
C40_StopUnknownNoOp ==
    /\ [][\A t \in Tasks :
            (/\ \E killed \in {"ok", "err"} : StopKill(t, killed)
             /\ processes[tasks[t].user] = NoChild)
                => /\ Supervised' = Supervised
                   /\ tasks'[t].pc = "stop_mark"]_vars
    /\ [][\A t \in Tasks :
            (StopMark(t) /\ ~Registered(tasks[t].user))
                => /\ Supervised' = Supervised
                   /\ tasks[t].op = "stop" =>
                         /\ tasks'[t].pc = "ret"
                         /\ tasks'[t].line = 312
                         /\ tasks'[t].err = "none"]_vars
    /\ [](\A t \in Tasks :
            (tasks[t].pc = "ret" /\ tasks[t].op = "stop")
                => tasks[t].line = 312 /\ tasks[t].err = "none")
    /\ [][\A t \in Tasks :
            (tasks[t].pc \in StopPcs /\ tasks'[t].pc \notin StopPcs)
                => IF tasks[t].op = "stop"
                   THEN tasks'[t].pc = "ret" /\ tasks'[t].err = "none"
                   ELSE tasks'[t].pc = "init_check"]_vars

\* A stop of a user with neither record nor handle has returned Ok while
\* the instance of the other user runs on its port.
C40_Witness ==
    \E t \in Tasks, u \in Users, v \in Users :
        /\ u # v
        /\ tasks[t].pc = "ret" /\ tasks[t].op = "stop"
        /\ tasks[t].user = u /\ tasks[t].line = 312
        /\ tasks[t].kill = "none" /\ tasks[t].err = "none"
        /\ ~Registered(u) /\ processes[u] = NoChild
        /\ Registered(v) /\ instances[v].status = "Running"
        /\ processes[v] = "alive"
        /\ allocated_ports = {instances[v].port}

====
